---- MODULE Spec2Model ----
(***************************************************************************)
(* Real-time state synchronisation of the YouTube Music FlexBar plugin.    *)
(*                                                                         *)
(* The module models YouTubeMusicRealtime (src/src/ytMusicRealtime.js and  *)
(* its second copy src/unnamed/part_005), the parts of YouTubeMusicApi it  *)
(* uses (src/src/keyHandler.js) and the coordinator functions of the       *)
(* plugin entry point (src/unnamed/part_007, first copy, lines 1-825).     *)
(*                                                                         *)
(* JavaScript runs every handler to completion, and promise reactions      *)
(* (the code after an `await`) run as microtasks before the next timer or  *)
(* socket event.  One action of the model is therefore one macrotask: a    *)
(* host event, a socket.io event, a timer firing or an HTTP response,      *)
(* together with the continuations it releases.                            *)
(*                                                                         *)
(* The socket.io-client library is the environment.  A socket is created   *)
(* with the default `reconnection: true` (src/src/ytMusicRealtime.js:60),  *)
(* so after 'connect_error' or a disconnect that the client did not ask    *)
(* for the library keeps trying on the SAME socket object and may emit     *)
(* 'connect' or 'connect_error' on it again; socket.disconnect() emits     *)
(* 'disconnect' with reason 'io client disconnect' synchronously when the  *)
(* socket was connected, and a disconnected socket emits nothing more.     *)
(***************************************************************************)
EXTENDS Integers, Sequences, FiniteSets, Bags, TLC

----------------------------------------------------------------------------
(* Bounds of the model *)

MaxSeq == 2          \* player state changes in one behaviour
MaxStale == 1        \* connect timeouts of abandoned attempts still pending
MaxCallbacks == 2    \* entries of stateUpdateCallbacks
MaxInitTimers == 1   \* pending 500 ms initial-state timers
MaxInflight == 1     \* REST pulls in flight
MaxForce == 1        \* forceReconnect() calls between their two halves
MaxAuto == 6         \* counted connect() calls of the reconnect timer
MaxFailures == 6     \* counted connection failures in a row
MaxNow == 4          \* the clock stops at this time, in units of 10 s
MaxJobs == 2         \* waits of keys in progress
MaxDraws == 2        \* draw calls on record per key

(* Program constants *)

InitialReconnectDelay == 1000
ConnectedReconnectDelay == 500
MaxDelay == 30000
ClientDisconnect == "io client disconnect"
Reasons == {"transport close", "io server disconnect"}

VARIABLES
    variant,    \* which copy of the class runs: "src" or "part_005"
    rt,         \* the YouTubeMusicRealtime object
    api,        \* the YouTubeMusicApi object: isAuthenticated, token
    authAuth,   \* ytMusicAuth.isAuthenticated
    cps,        \* currentPlaybackState of the entry point
    player,     \* the player's current state, as the server would report it
    inflight,   \* bag of REST pulls whose response has not arrived
    forcePending, \* forceReconnect() calls waiting in their 1 s pause
    notified,   \* callbacks run by the last state delivery
    now,        \* the clock, Date.now(), in units of 10 s
    activeKeys, \* keyManager.activeKeys: the ids of the keys shown
    returned,   \* what the last call of getCurrentTrackState() returned
    counted,    \* counters of the runs of the automatic reconnect: auto,
                \* the connect() calls made by the reconnect timer, and
                \* failures, the connection failures in a row
    config,     \* the saved config holds credentials (isAuthenticated,
                \* token and appId)
    authInit,   \* the run of ytMusicAuth.initializeAuthentication()
    apiCall,    \* the last invocation of makeRequest and how it ended
    jobs,       \* the key initialisations and renders that wait for a
                \* response or an image
    drawn,      \* the plugin.draw calls of the last step
    drawLog,    \* per key initialised by plugin.alive with a snapshot at
                \* hand: its draw calls since, until a state event arrives
    fanout,     \* the last delivery of a state update to the callbacks
    hostReport, \* the host report, or the wait of a key, the last step handled
    notificationLevel, \* currentNotificationLevelName of the entry point
    shown,      \* the showNotification calls of the last step
    keyData,    \* keyManager.keyData[uid].data.currentState of the
                \* multi-state keys: repeat, mute and shuffle
    pressed,    \* the interactions of the multi-state keys whose command
                \* is in flight, each with the state of the key before it
    authFlow,   \* the run of ytMusicAuth.startAuthenticationFlow()
    lastOp      \* the operation that produced the current state

\* The state of the REST client's callers and of the saved config
apiVars == <<config, authInit, apiCall>>

\* The notifications, the multi-state keys and the authentication flow
noteVars == <<notificationLevel, shown, keyData, pressed, authFlow>>

\* The renders in progress and what is observed of the keys
keyVars == <<jobs, drawn, drawLog, fanout, hostReport, noteVars>>

vars == <<variant, rt, api, authAuth, cps, player, inflight, forcePending,
          notified, now, activeKeys, returned, counted, apiVars, keyVars,
          lastOp>>

----------------------------------------------------------------------------
(* Values *)

NoSocket == [exists |-> FALSE, status |-> "closed", setup |-> FALSE]

\* `io(socketUrl, ...)`: a new socket, connecting, with no handler yet
NewSocket == [exists |-> TRUE, status |-> "opening", setup |-> FALSE]

NoAttempt == [timeout |-> FALSE, waiter |-> FALSE]

\* A field of a payload that may be missing (undefined in JavaScript)
Missing == [has |-> FALSE, v |-> 0]

Num(n) == [has |-> TRUE, v |-> n]

\* `x || d` for a field that is a number or missing
OrElse(x, d) == IF x.has /\ x.v # 0 THEN x.v ELSE d

\* `n || d` for a number
OrNum(n, d) == IF n # 0 THEN n ELSE d

\* null where a snapshot is expected; a snapshot has present = TRUE.
\* seq is the position of the player state in the player's history, and
\* lastUpdate = 0 stands for a snapshot without the field
NoState ==
    [present |-> FALSE, seq |-> 0, title |-> "", artist |-> "",
     videoId |-> "", progress |-> 0, isPlaying |-> FALSE,
     isPaused |-> FALSE, isBuffering |-> FALSE, volume |-> 0,
     likeStatus |-> Missing, repeatMode |-> 0, lastUpdate |-> 0]

NoTimer == 0

\* initializeAuthentication() has not been called
NoAuthInit ==
    [pc |-> "idle", attempt |-> 0, requests |-> 0, lastError |-> "none",
     result |-> "none"]

NoApiCall ==
    [caller |-> "none", phase |-> "none", authenticated |-> FALSE,
     outcome |-> "none", res |-> "none", error |-> "", requests |-> 0]

NoFanout ==
    [callbacks |-> 0, faulty |-> {}, failing |-> {}, invoked |-> {},
     calls |-> {}, escaped |-> FALSE]

NoReport == [kind |-> "none"]

\* startAuthenticationFlow() has not been called
NoAuthFlow ==
    [inProgress |-> FALSE, pc |-> "idle", result |-> "none", running |-> 0,
     rejected |-> FALSE, requests |-> 0]

\* key.cid of the multi-state keys
MultiStateCids == {"repeat", "mute", "shuffle"}

----------------------------------------------------------------------------
(* The entry point: notifications and their level *)

\* NOTIFICATION_LEVELS
NOTIFICATION_LEVELS ==
    [OFF |-> 0, ERROR |-> 1, WARNING |-> 2, INFO |-> 3]

\* String.prototype.toUpperCase() on the names that occur
toUpperCase(name) ==
    IF name = "off" THEN "OFF"
    ELSE IF name = "error" THEN "ERROR"
    ELSE IF name = "warning" THEN "WARNING"
    ELSE IF name = "info" THEN "INFO"
    ELSE IF name = "debug" THEN "DEBUG"
    ELSE name

\* NOTIFICATION_LEVELS.hasOwnProperty(name) ? NOTIFICATION_LEVELS[name]
\*                                          : NOTIFICATION_LEVELS.ERROR
LevelValue(name) ==
    IF name \in DOMAIN NOTIFICATION_LEVELS THEN NOTIFICATION_LEVELS[name]
    ELSE NOTIFICATION_LEVELS.ERROR

\* getCurrentNumericNotificationLevel()
getCurrentNumericNotificationLevel(levelName) ==
    LevelValue(toUpperCase(levelName))

\* What config.notificationLevel can hold: a name of the settings page in
\* either case, another string, or nothing
NoLevel == "undefined"
ConfiguredLevels ==
    {"OFF", "ERROR", "WARNING", "INFO", "info", "off", "VERBOSE", NoLevel}

\* updateNotificationLevelFromConfig(): the new currentNotificationLevelName;
\* with `fails` plugin.getConfig() rejects
updateNotificationLevelFromConfig(configured, fails) ==
    IF fails THEN "ERROR"
    ELSE IF /\ configured # NoLevel
            /\ toUpperCase(configured) \in DOMAIN NOTIFICATION_LEVELS
    THEN toUpperCase(configured)
    ELSE "ERROR"

\* The levels the callers of showNotification pass, and one that is not a
\* name of NOTIFICATION_LEVELS
MessageLevels == {"error", "warning", "info", "debug"}

\* The messages told apart: the one of showAuthError and the others
Messages == {"Auth required", "failure", "done"}

\* showNotification() without the try/catch around the host call
showNotificationNoCatch(levelName, serialNumber, message, level, hostFails) ==
    LET called == ~(LevelValue(toUpperCase(level))
                      > getCurrentNumericNotificationLevel(levelName))
    IN  [message |-> message, level |-> level, serialNumber |-> serialNumber,
         called |-> called, displayed |-> called /\ ~hostFails,
         hostFails |-> hostFails, thrown |-> called /\ hostFails]

\* showNotification(serialNumber, message, level): whether the host call is
\* made, whether it displays the message, and whether the call throws; with
\* `hostFails` the host call throws
showNotification(levelName, serialNumber, message, level, hostFails) ==
    LET called == ~(LevelValue(toUpperCase(level))
                      > getCurrentNumericNotificationLevel(levelName))
    IN  [message |-> message, level |-> level, serialNumber |-> serialNumber,
         called |-> called, displayed |-> called /\ ~hostFails,
         hostFails |-> hostFails, thrown |-> FALSE]

\* showErrorNotification(serialNumber, message, level)
showErrorNotification(levelName, serialNumber, message, level) ==
    showNotification(levelName, serialNumber, message, level, FALSE)

\* showAuthError(serialNumber, action)
showAuthError(levelName, serialNumber) ==
    showNotification(levelName, serialNumber, "Auth required", "warning",
                     FALSE)

----------------------------------------------------------------------------
(* YouTubeMusicRealtime: reconnect scheduling *)

Pow2(n) == IF n <= 0 THEN 1 ELSE 2 ^ n

Min(a, b) == IF a < b THEN a ELSE b

ReconnectDelayOf(c) ==
    Min(c.reconnectDelay * Pow2(c.reconnectAttempts - 1), MaxDelay)

\* clearTimeout(this.connectionAttemptTimer): a timer that has not fired is
\* cancelled
clearTimeout(c) ==
    IF c.timer # NoTimer
    THEN [c EXCEPT !.timer = NoTimer, !.timers = @ - 1]
    ELSE c

\* scheduleReconnect() without its clearTimeout of the previous timer
scheduleReconnectNoClear(c) ==
    LET c1 == [c EXCEPT !.reconnectAttempts = @ + 1]
    IN  [c1 EXCEPT !.timer = ReconnectDelayOf(c1), !.timers = @ + 1]

\* scheduleReconnect(): clearTimeout of the previous timer, count, set the timer
scheduleReconnect(c) ==
    LET c1 == [clearTimeout(c) EXCEPT !.reconnectAttempts = @ + 1]
    IN  [c1 EXCEPT !.timer = ReconnectDelayOf(c1), !.timers = @ + 1]

\* handleConnectionError() without `this.isConnected = false`
handleConnectionErrorKeepsConnected(c) ==
    IF c.reconnectAttempts < c.maxReconnectAttempts
    THEN scheduleReconnect(c)
    ELSE c

handleConnectionError(c) ==
    LET c1 == [c EXCEPT !.isConnected = FALSE]
    IN  IF c1.reconnectAttempts < c1.maxReconnectAttempts
        THEN scheduleReconnect(c1)
        ELSE c1

handleDisconnection(c, reason) ==
    LET c1 == [c EXCEPT !.isConnected = FALSE]
    IN  IF reason = ClientDisconnect THEN c1
        ELSE IF c1.reconnectAttempts < c1.maxReconnectAttempts
             THEN scheduleReconnect(c1)
             ELSE c1

----------------------------------------------------------------------------
(* The handlers registered on a socket *)

\* 'disconnect' handler of setupEventHandlers
onDisconnectSetup(c, reason) ==
    handleDisconnection([c EXCEPT !.isConnected = FALSE,
                                  !.connecting = FALSE], reason)

\* 'disconnect' handler registered in connect()'s promise
onDisconnectPromise(c, reason) ==
    handleDisconnection([c EXCEPT !.isConnected = FALSE,
                                  !.connecting = FALSE], reason)

\* The socket emits 'disconnect': its handlers run in registration order
emitDisconnect(c, reason) ==
    LET c1 == IF c.socket.setup THEN onDisconnectSetup(c, reason) ELSE c
    IN  onDisconnectPromise(c1, reason)

----------------------------------------------------------------------------
(* disconnect() *)

\* The attempt of the socket given up: its 15 s timer is held by the closure
\* of connect()'s promise and nothing here clears it
AbandonAttempt(c) ==
    IF c.attempt.timeout
    THEN [c EXCEPT !.stale = IF c.attempt.waiter
                             THEN [@ EXCEPT !.w = @ + 1]
                             ELSE [@ EXCEPT !.nw = @ + 1],
                   !.attempt = NoAttempt]
    ELSE [c EXCEPT !.attempt = NoAttempt]

\* `if (this.socket) { this.socket.disconnect(); this.socket = null; }`
dropSocket(c) ==
    IF c.socket.exists
    THEN LET c1 == IF c.socket.status = "open"
                   THEN emitDisconnect(c, ClientDisconnect)
                   ELSE c
         IN  [AbandonAttempt(c1) EXCEPT !.socket = NoSocket]
    ELSE c

\* src/src/ytMusicRealtime.js
disconnectSrc(c) ==
    [dropSocket(c) EXCEPT !.isConnected = FALSE,
                          !.connecting = FALSE,
                          !.handlersRegistered = FALSE,
                          !.reconnectAttempts = 0]

\* src/unnamed/part_005
disconnectPart005(c) ==
    [dropSocket(clearTimeout(c))
        EXCEPT !.isConnected = FALSE,
               !.reconnectAttempts = 0,
               !.lastState = NoState]

disconnect(c) ==
    IF variant = "src" THEN disconnectSrc(c) ELSE disconnectPart005(c)

----------------------------------------------------------------------------
(* connect() *)

setupEventHandlers(c) ==
    IF ~c.socket.exists THEN c
    ELSE IF c.handlersRegistered THEN c
    ELSE [c EXCEPT !.handlersRegistered = TRUE, !.socket.setup = TRUE]

\* connect() without its two authentication checks
connectNoAuthCheck(c, a) ==
    IF c.connecting THEN [c |-> c, res |-> "false"]
    ELSE IF c.socket.exists /\ c.isConnected THEN [c |-> c, res |-> "true"]
    ELSE LET c1 == IF c.socket.exists /\ ~c.isConnected
                   THEN disconnect(c) ELSE c
         IN  [c |-> [setupEventHandlers(
                         [c1 EXCEPT !.connecting = TRUE,
                                    !.socket = NewSocket])
                       EXCEPT !.attempt = [timeout |-> TRUE,
                                           waiter |-> FALSE]],
              res |-> "pending"]

\* connect() without its check of `this.connecting`
connectNoConnectingCheck(c, a) ==
    IF c.socket.exists /\ c.isConnected THEN [c |-> c, res |-> "true"]
    ELSE LET c1 == IF c.socket.exists /\ ~c.isConnected
                   THEN disconnect(c) ELSE c
         IN  IF ~a.isAuthenticated THEN [c |-> c1, res |-> "throw"]
             ELSE IF ~a.token THEN [c |-> c1, res |-> "throw"]
             ELSE [c |-> [setupEventHandlers(
                              [c1 EXCEPT !.connecting = TRUE,
                                         !.socket = NewSocket])
                            EXCEPT !.attempt = [timeout |-> TRUE,
                                                waiter |-> FALSE]],
                   res |-> "pending"]

\* connect() without the disconnect() of a socket that is not connected
connectKeepsCounter(c, a) ==
    IF c.connecting THEN [c |-> c, res |-> "false"]
    ELSE IF c.socket.exists /\ c.isConnected THEN [c |-> c, res |-> "true"]
    ELSE IF ~a.isAuthenticated THEN [c |-> c, res |-> "throw"]
    ELSE IF ~a.token THEN [c |-> c, res |-> "throw"]
    ELSE [c |-> [setupEventHandlers(
                     [AbandonAttempt(c) EXCEPT !.connecting = TRUE,
                                               !.handlersRegistered = FALSE,
                                               !.socket = NewSocket])
                   EXCEPT !.attempt = [timeout |-> TRUE, waiter |-> FALSE]],
          res |-> "pending"]

\* The result is what the call returns at once: "false", "true", "throw",
\* or "pending" for the promise that the socket's events or the 15 s timer
\* settle later
connect(c, a) ==
    IF c.connecting THEN [c |-> c, res |-> "false"]
    ELSE IF c.socket.exists /\ c.isConnected THEN [c |-> c, res |-> "true"]
    ELSE LET c1 == IF c.socket.exists /\ ~c.isConnected
                   THEN disconnect(c) ELSE c
         IN  IF ~a.isAuthenticated THEN [c |-> c1, res |-> "throw"]
             ELSE IF ~a.token THEN [c |-> c1, res |-> "throw"]
             ELSE [c |-> [setupEventHandlers(
                              [c1 EXCEPT !.connecting = TRUE,
                                         !.socket = NewSocket])
                            EXCEPT !.attempt = [timeout |-> TRUE,
                                                waiter |-> FALSE]],
                   res |-> "pending"]

----------------------------------------------------------------------------
(* YouTubeMusicApi.formatTrackState and the change detector *)

\* A raw payload is the player's state as the server serialises it; `shape`
\* says which parts the payload has: "ok", "novideo" (state.video missing) or
\* "noplayer" (state.video present, state.player missing).
\* or "null" (the payload itself is null).  A missing or empty string field
\* is "".
\* kind "null": the function returns null; "throw": it throws a TypeError.
formatTrackState(raw) ==
    IF raw.shape \in {"null", "novideo"}
    THEN [kind |-> "null", state |-> NoState]
    ELSE IF raw.shape = "noplayer" THEN [kind |-> "throw", state |-> NoState]
    ELSE [kind |-> "ok",
          state |-> [present |-> TRUE,
                     seq |-> raw.seq,
                     title |-> IF raw.title = "" THEN "Unknown Title"
                               ELSE raw.title,
                     artist |-> IF raw.author = "" THEN "Unknown Artist"
                                ELSE raw.author,
                     videoId |-> raw.id,
                     progress |-> OrNum(raw.progress, 0),
                     isPlaying |-> raw.trackState = Num(1),
                     isPaused |-> raw.trackState = Num(0),
                     isBuffering |-> raw.trackState = Num(2),
                     volume |-> OrElse(raw.volume, 0),
                     likeStatus |-> raw.likeStatus,
                     repeatMode |-> OrElse(raw.repeatMode, -1),
                     lastUpdate |-> 0]]

Abs(x) == IF x < 0 THEN -x ELSE x

\* shouldNotifyStateChange() without 'repeatMode' in its list of fields
shouldNotifyIgnoresRepeatMode(c, newState) ==
    IF ~c.lastState.present THEN TRUE
    ELSE IF ~newState.present THEN FALSE
    ELSE IF c.lastState.title # newState.title THEN TRUE
    ELSE IF c.lastState.artist # newState.artist THEN TRUE
    ELSE IF c.lastState.videoId # newState.videoId THEN TRUE
    ELSE IF c.lastState.isPlaying # newState.isPlaying THEN TRUE
    ELSE IF c.lastState.isPaused # newState.isPaused THEN TRUE
    ELSE IF c.lastState.likeStatus # newState.likeStatus THEN TRUE
    ELSE IF c.lastState.volume # newState.volume THEN TRUE
    ELSE IF Abs(newState.progress - c.lastState.progress) > 2 THEN TRUE
    ELSE IF newState.progress # c.lastState.progress THEN TRUE
    ELSE FALSE

shouldNotifyStateChange(c, newState) ==
    IF ~c.lastState.present THEN TRUE
    ELSE IF ~newState.present THEN FALSE
    ELSE IF c.lastState.title # newState.title THEN TRUE
    ELSE IF c.lastState.artist # newState.artist THEN TRUE
    ELSE IF c.lastState.videoId # newState.videoId THEN TRUE
    ELSE IF c.lastState.isPlaying # newState.isPlaying THEN TRUE
    ELSE IF c.lastState.isPaused # newState.isPaused THEN TRUE
    ELSE IF c.lastState.likeStatus # newState.likeStatus THEN TRUE
    ELSE IF c.lastState.volume # newState.volume THEN TRUE
    ELSE IF c.lastState.repeatMode # newState.repeatMode THEN TRUE
    ELSE IF Abs(newState.progress - c.lastState.progress) > 2 THEN TRUE
    ELSE IF newState.progress # c.lastState.progress THEN TRUE
    ELSE FALSE

----------------------------------------------------------------------------
(* Entry point: currentPlaybackState and the state-update callback *)

updateCurrentPlaybackStateFromTrack(p, trackData) ==
    IF ~trackData.present THEN p
    ELSE [p EXCEPT !.currentTrack = trackData,
                   !.isPlaying = trackData.isPlaying,
                   !.progress = OrNum(trackData.progress, 0),
                   !.repeatMode = OrNum(trackData.repeatMode, -1),
                   !.volume = OrNum(trackData.volume, 50)]

\* The callback connectToRealTimeUpdates registers
handleRealTimeStateUpdate(p, formattedState) ==
    updateCurrentPlaybackStateFromTrack(p, formattedState)

\* stateUpdateCallbacks.forEach(callback => callback(formattedState, state))
RECURSIVE runCallbacks(_, _, _)
runCallbacks(cbs, p, formattedState) ==
    IF cbs = <<>> THEN p
    ELSE runCallbacks(Tail(cbs), handleRealTimeStateUpdate(p, formattedState),
                      formattedState)

\* handleStateUpdate() without the assignment of its else branch: a change
\* that is not notified is not stored
handleStateUpdateSkipsSilent(c, p, raw) ==
    LET f == formatTrackState(raw)
        formattedState == [f.state EXCEPT !.lastUpdate = now]
    IN  IF f.kind # "ok" THEN [c |-> c, p |-> p, n |-> 0]
        ELSE IF shouldNotifyStateChange(c, formattedState)
             THEN [c |-> [c EXCEPT !.lastState = formattedState],
                   p |-> runCallbacks(c.stateUpdateCallbacks, p,
                                      formattedState),
                   n |-> Len(c.stateUpdateCallbacks)]
             ELSE [c |-> c, p |-> p, n |-> 0]

\* handleStateUpdate() storing what formatTrackState returned, null included
handleStateUpdateStoresNull(c, p, raw) ==
    LET f == formatTrackState(raw)
        formattedState == [f.state EXCEPT !.lastUpdate = now]
    IN  IF f.kind # "ok"
        THEN [c |-> [c EXCEPT !.lastState = NoState], p |-> p, n |-> 0]
        ELSE IF shouldNotifyStateChange(c, formattedState)
             THEN [c |-> [c EXCEPT !.lastState = formattedState],
                   p |-> runCallbacks(c.stateUpdateCallbacks, p,
                                      formattedState),
                   n |-> Len(c.stateUpdateCallbacks)]
             ELSE [c |-> [c EXCEPT !.lastState = formattedState],
                   p |-> p, n |-> 0]

\* handleStateUpdate(state): the new channel, the new currentPlaybackState
\* and the number of callbacks run
handleStateUpdate(c, p, raw) ==
    LET f == formatTrackState(raw)
        formattedState == [f.state EXCEPT !.lastUpdate = now]
    IN  IF f.kind # "ok" THEN [c |-> c, p |-> p, n |-> 0]
        ELSE IF shouldNotifyStateChange(c, formattedState)
             THEN [c |-> [c EXCEPT !.lastState = formattedState],
                   p |-> runCallbacks(c.stateUpdateCallbacks, p,
                                      formattedState),
                   n |-> Len(c.stateUpdateCallbacks)]
             ELSE [c |-> [c EXCEPT !.lastState = formattedState],
                   p |-> p, n |-> 0]

\* requestInitialState() after getCurrentState() resolved with `raw`
requestInitialStateDone(c, p, raw) ==
    LET f == formatTrackState(raw)
        formattedState == [f.state EXCEPT !.lastUpdate = now]
    IN  IF f.kind # "ok" THEN [c |-> c, p |-> p, n |-> 0]
        ELSE [c |-> [c EXCEPT !.lastState = formattedState],
              p |-> runCallbacks(c.stateUpdateCallbacks, p, formattedState),
              n |-> Len(c.stateUpdateCallbacks)]

\* getCurrentTrackState() after getCurrentState() resolved with `raw`
getCurrentTrackStateDone(p, raw) ==
    LET f == formatTrackState(raw)
    IN  IF f.kind # "ok" THEN p
        ELSE updateCurrentPlaybackStateFromTrack(p, f.state)

\* hasRecentState(maxAgeMs): the clock counts in units of 10 s
hasRecentState(c, maxAgeMs) ==
    IF ~c.lastState.present \/ c.lastState.lastUpdate = 0 THEN FALSE
    ELSE (now - c.lastState.lastUpdate) * 10000 < maxAgeMs

----------------------------------------------------------------------------
(* keyManager: the key ids and the registry of the active keys *)

\* Serial numbers and uids are strings, here sequences of tokens: the token
\* "-" is the character `${serialNumber}-${key.uid}` puts between the two
Serials == {<<"d1">>, <<"d2">>}

NowPlayingUid == <<"k1">>
LikeUid == <<"k2">>
\* A uid with a "-" inside
DashedUid == <<"k", "-", "3">>

Uids == {NowPlayingUid, LikeUid, DashedUid}

\* key.cid of the key with this uid
CidOf(uid) == IF uid = NowPlayingUid THEN "nowplaying" ELSE "like"

\* `${serialNumber}-${key.uid}`
KeyIdOf(serialNumber, uid) == serialNumber \o <<"-">> \o uid

\* The position of the first "-" of s, or 0
IndexOfDash(s) ==
    IF \E i \in 1..Len(s) : s[i] = "-"
    THEN CHOOSE i \in 1..Len(s) :
             s[i] = "-" /\ \A j \in 1..(i - 1) : s[j] # "-"
    ELSE 0

\* s.split('-')
RECURSIVE split(_)
split(s) ==
    LET i == IndexOfDash(s)
    IN  IF i = 0 THEN <<s>>
        ELSE <<SubSeq(s, 1, i - 1)>> \o split(SubSeq(s, i + 1, Len(s)))

\* const [serialNumber, keyUid] = keyId.split('-'): the first two parts
\* (<<>> stands for undefined)
splitKeyId(keyId) ==
    LET parts == split(keyId)
    IN  [serialNumber |-> parts[1],
         keyUid |-> IF Len(parts) >= 2 THEN parts[2] ELSE <<>>]

\* keyId.startsWith(prefix)
startsWith(s, prefix) ==
    Len(s) >= Len(prefix) /\ SubSeq(s, 1, Len(prefix)) = prefix

\* isDeviceConnected(serialNumber): some active key id starts with
\* `${serialNumber}-`
isDeviceConnected(keys, serialNumber) ==
    \E keyId \in keys : startsWith(keyId, serialNumber \o <<"-">>)

\* cleanupKey(serialNumber, keyUid): the registry afterwards
cleanupKey(keys, serialNumber, keyUid) ==
    IF serialNumber = <<>> \/ keyUid = <<>> THEN keys
    ELSE keys \ {KeyIdOf(serialNumber, keyUid)}

\* keyManager.keyData[keyUid] is defined: an entry is stored when its key
\* becomes active and is never deleted, and the lookups are made with the
\* parsed ids of active keys
HasKeyData(keyUid) == keyUid \in Uids

\* simpleDraw, textOnlyDraw and simpleTextDraw up to their plugin.draw:
\* whether the call is made
simpleDrawNoActiveCheck(keys, serialNumber, uid) ==
    isDeviceConnected(keys, serialNumber)

simpleDraw(keys, serialNumber, uid) ==
    /\ isDeviceConnected(keys, serialNumber)
    /\ KeyIdOf(serialNumber, uid) \in keys

\* _handleDeviceStatus, its loop over the active keys: the registry
\* afterwards (every cleanupKey removes one id, in any order)
deviceStatusKeys(keys, connectedSerialNumbers) ==
    keys \ {KeyIdOf(splitKeyId(keyId).serialNumber, splitKeyId(keyId).keyUid) :
               keyId \in {k \in keys : splitKeyId(k).serialNumber
                                          \notin connectedSerialNumbers}}

\* _handlePluginAlive, keysToCleanup and its cleanupKey calls
cleanupStaleKeys(keys, serialNumber, incomingKeyUids) ==
    keys \ {KeyIdOf(splitKeyId(keyId).serialNumber, splitKeyId(keyId).keyUid) :
               keyId \in {k \in keys :
                            /\ splitKeyId(k).serialNumber = serialNumber
                            /\ splitKeyId(k).keyUid \notin incomingKeyUids}}

\* The uids of the incoming keys that are initialised: those not active
\* after the clean-up
keysToInitialize(keys, serialNumber, incomingKeyUids) ==
    {uid \in incomingKeyUids :
        KeyIdOf(serialNumber, uid)
            \notin cleanupStaleKeys(keys, serialNumber, incomingKeyUids)}

\* _handlePluginAlive: the registry after the clean-up and after each
\* initialize...Key marked its key active
pluginAliveKeys(keys, serialNumber, incomingKeyUids) ==
    cleanupStaleKeys(keys, serialNumber, incomingKeyUids)
      \cup {KeyIdOf(serialNumber, uid) : uid \in incomingKeyUids}

\* updateAllActiveKeys(): the update...KeyDisplay(serialNumber, key) calls,
\* one for every active key id whose parsed uid has key data
updateAllActiveKeys(keys) ==
    {[serialNumber |-> splitKeyId(keyId).serialNumber,
      uid |-> splitKeyId(keyId).keyUid] :
        keyId \in {k \in keys : HasKeyData(splitKeyId(k).keyUid)}}


----------------------------------------------------------------------------
(* Entry point: connectToRealTimeUpdates *)

onStateUpdate(c) ==
    [c EXCEPT !.stateUpdateCallbacks = Append(@, "coord")]

\* The code after `await ytMusicRealtime.connect()` when the promise resolves
ctruResolved(c, p) ==
    [c |-> onStateUpdate(c), p |-> [p EXCEPT !.realTimeConnected = TRUE]]

\* The catch block, when connect() throws or its promise rejects
ctruRejected(c, p) ==
    [c |-> c, p |-> [p EXCEPT !.realTimeConnected = FALSE]]

\* `a` is ytMusicApi, `auth` is ytMusicAuth.getAuthenticationStatus()
connectToRealTimeUpdates(c, p, a, auth) ==
    IF ~auth \/ ~a.token THEN [c |-> c, p |-> p, res |-> "throw"]
    ELSE IF p.realTimeConnected /\ c.isConnected
         THEN [c |-> c, p |-> p, res |-> "return"]
    ELSE LET p1 == [p EXCEPT !.realTimeConnected = FALSE]
             r == connect(c, a)
         IN  IF r.res \in {"true", "false"}
             THEN [c |-> ctruResolved(r.c, p1).c, p |-> ctruResolved(r.c, p1).p,
                   res |-> "ok"]
             ELSE IF r.res = "throw"
             THEN [c |-> ctruRejected(r.c, p1).c, p |-> ctruRejected(r.c, p1).p,
                   res |-> "throw"]
             ELSE [c |-> [r.c EXCEPT !.attempt.waiter = TRUE], p |-> p1,
                   res |-> "pending"]

\* The promise of the attempt settles; `waiter` says whether
\* connectToRealTimeUpdates awaits it
settle(c, p, waiter, ok) ==
    IF ~waiter THEN [c |-> c, p |-> p]
    ELSE IF ok THEN ctruResolved(c, p) ELSE ctruRejected(c, p)

----------------------------------------------------------------------------
(* Initial state: the constructors and the module-level state *)

\* What the server reports while track "A" plays: every field present
BasePayload ==
    [seq |-> 0, shape |-> "ok", title |-> "A", author |-> "X", id |-> "v1",
     progress |-> 0, trackState |-> Num(1), volume |-> Num(50),
     likeStatus |-> Num(1), repeatMode |-> Num(1)]

InitRt ==
    [socket |-> NoSocket,
     isConnected |-> FALSE,
     connecting |-> FALSE,
     reconnectAttempts |-> 0,
     maxReconnectAttempts |-> 5,
     reconnectDelay |-> InitialReconnectDelay,
     handlersRegistered |-> FALSE,
     stateUpdateCallbacks |-> <<>>,
     lastState |-> NoState,
     timer |-> NoTimer,        \* the pending timer of connectionAttemptTimer
     timers |-> 0,             \* the reconnect timers set and not yet fired
     attempt |-> NoAttempt,    \* the 15 s timer and promise of this.socket
     stale |-> [w |-> 0, nw |-> 0], \* 15 s timers of sockets given up
     initTimers |-> 0]         \* pending 500 ms timers of the 'connect' handler

InitCommon ==
    /\ rt = InitRt
    /\ api = [isAuthenticated |-> FALSE, token |-> FALSE]
    /\ authAuth = FALSE
    /\ cps = [realTimeConnected |-> FALSE, currentTrack |-> NoState,
              isPlaying |-> FALSE, progress |-> 0, volume |-> 50,
              repeatMode |-> -1]
    /\ player = BasePayload
    /\ now = 1
    /\ activeKeys = {}
    /\ returned = [called |-> FALSE, value |-> NoState]
    /\ inflight = EmptyBag
    /\ forcePending = 0
    /\ notified = 0
    /\ counted = [auto |-> 0, failures |-> 0]
    /\ config = TRUE
    /\ authInit = NoAuthInit
    /\ apiCall = NoApiCall
    /\ jobs = {}
    /\ drawn = {}
    /\ drawLog = <<>>
    /\ fanout = NoFanout
    /\ hostReport = NoReport
    /\ notificationLevel = "ERROR"
    /\ shown = {}
    /\ keyData = [cid \in MultiStateCids |-> 0]
    /\ pressed = {}
    /\ authFlow = NoAuthFlow
    /\ lastOp = "init"

Init == variant = "src" /\ InitCommon

InitPart005 == variant = "part_005" /\ InitCommon

\* The bounds of the model, on the state an action produces
Bounded(c) ==
    /\ c.stale.w + c.stale.nw <= MaxStale
    /\ Len(c.stateUpdateCallbacks) <= MaxCallbacks
    /\ c.initTimers <= MaxInitTimers

Step(op, c, p, n) ==
    /\ Bounded(c)
    /\ rt' = c
    /\ cps' = p
    /\ notified' = n
    /\ lastOp' = op

----------------------------------------------------------------------------
(* Socket events *)

\* 'connect' handler of setupEventHandlers (the other one only logs)
onConnectSetup(c) ==
    [c EXCEPT !.isConnected = TRUE,
              !.reconnectAttempts = 0,
              !.initTimers = @ + 1]

\* 'connect' handler of connect()'s promise without `this.connecting = false`
onConnectPromiseKeepsConnecting(c) ==
    [c EXCEPT !.attempt = NoAttempt,
              !.isConnected = TRUE,
              !.reconnectAttempts = 0,
              !.reconnectDelay = ConnectedReconnectDelay]

\* 'connect' handler registered in connect()'s promise, before resolve(true)
onConnectPromise(c) ==
    [c EXCEPT !.attempt = NoAttempt,
              !.isConnected = TRUE,
              !.connecting = FALSE,
              !.reconnectAttempts = 0,
              !.reconnectDelay = ConnectedReconnectDelay]

\* 'connect_error' handler registered in connect()'s promise, before reject
onConnectErrorPromiseKeepsConnecting(c) ==
    handleConnectionError([c EXCEPT !.attempt = NoAttempt,
                                    !.isConnected = FALSE])

onConnectErrorPromise(c) ==
    handleConnectionError([c EXCEPT !.attempt = NoAttempt,
                                    !.isConnected = FALSE,
                                    !.connecting = FALSE])

\* 'error' handler of setupEventHandlers (the one of connect() only logs)
onErrorSetup(c) == handleConnectionError(c)

SocketConnect ==
    /\ rt.socket.exists /\ rt.socket.status = "opening"
    /\ LET c0 == [rt EXCEPT !.socket.status = "open"]
           c1 == IF c0.socket.setup THEN onConnectSetup(c0) ELSE c0
           c2 == onConnectPromise(c1)
           x == settle(c2, cps, rt.attempt.waiter, TRUE)
       IN  Step("SocketConnect", x.c, x.p, 0)
    /\ UNCHANGED <<apiVars, keyVars, now, activeKeys, returned, variant, api, authAuth, player, inflight, forcePending,
                   counted>>

\* After 'connect_error' the library retries on the same socket, or gives
\* the socket up (the server refused the handshake)
SocketConnectErrorEvent ==
    /\ rt.socket.exists /\ rt.socket.status = "opening"
    /\ \E st \in {"opening", "closed"} :
         LET c0 == [rt EXCEPT !.socket.status = st]
             c1 == onConnectErrorPromise(c0)
             x == settle(c1, cps, rt.attempt.waiter, FALSE)
         IN  Step("SocketConnectError", x.c, x.p, 0)
    /\ UNCHANGED <<apiVars, keyVars, now, activeKeys, returned, variant, api, authAuth, player, inflight, forcePending>>

SocketConnectError == SocketConnectErrorEvent /\ UNCHANGED counted

SocketDisconnect ==
    /\ rt.socket.exists /\ rt.socket.status = "open"
    /\ \E reason \in Reasons :
         LET st == IF reason = "io server disconnect" THEN "closed"
                   ELSE "opening"
             c0 == [rt EXCEPT !.socket.status = st]
         IN  Step("SocketDisconnect", emitDisconnect(c0, reason), cps, 0)
    /\ UNCHANGED <<apiVars, keyVars, now, activeKeys, returned, variant, api, authAuth, player, inflight, forcePending,
                   counted>>

\* The server emits an event named 'error': the library delivers events to
\* a connected socket only (before 'connect' it buffers them)
SocketError ==
    /\ rt.socket.exists /\ rt.socket.status = "open"
    /\ rt.socket.setup
    /\ Step("SocketError", onErrorSetup(rt), cps, 0)
    /\ UNCHANGED <<apiVars, keyVars, now, activeKeys, returned, variant, api, authAuth, player, inflight, forcePending,
                   counted>>

----------------------------------------------------------------------------
(* Timers *)

\* The 15 s timer of the attempt of this.socket
ConnectTimeoutFires ==
    /\ rt.attempt.timeout
    /\ LET c0 == [rt EXCEPT !.connecting = FALSE, !.attempt = NoAttempt]
           c1 == disconnect(c0)
           x == settle(c1, cps, rt.attempt.waiter, FALSE)
       IN  Step("ConnectTimeout", x.c, x.p, 0)
    /\ UNCHANGED <<apiVars, keyVars, now, activeKeys, returned, variant, api, authAuth, player, inflight, forcePending>>

ConnectTimeout == ConnectTimeoutFires /\ UNCHANGED counted

\* The 15 s timer of an attempt whose socket was given up by disconnect()
StaleConnectTimeout ==
    /\ \E w \in BOOLEAN :
         /\ IF w THEN rt.stale.w > 0 ELSE rt.stale.nw > 0
         /\ LET c0 == [rt EXCEPT !.connecting = FALSE,
                                 !.stale = IF w THEN [@ EXCEPT !.w = @ - 1]
                                           ELSE [@ EXCEPT !.nw = @ - 1]]
                c1 == disconnect(c0)
                x == settle(c1, cps, w, FALSE)
            IN  Step("StaleConnectTimeout", x.c, x.p, 0)
    /\ UNCHANGED <<apiVars, keyVars, now, activeKeys, returned, variant, api, authAuth, player, inflight, forcePending,
                   counted>>

\* The timer of scheduleReconnect: `await this.connect()` in a try/catch
ReconnectTimerFires ==
    /\ rt.timer # NoTimer
    /\ LET r == connect([rt EXCEPT !.timer = NoTimer, !.timers = @ - 1], api)
       IN  Step("ReconnectTimer", r.c, cps, 0)
    /\ UNCHANGED <<apiVars, keyVars, now, activeKeys, returned, variant, api, authAuth, player, inflight, forcePending>>

ReconnectTimer == ReconnectTimerFires /\ UNCHANGED counted

----------------------------------------------------------------------------
(* Host events and UI messages of the entry point *)

\* plugin.alive, the config load: saved credentials are installed and, when
\* realTimeConnected is false, connectToRealTimeUpdates() is awaited
AliveConfigLoad ==
    /\ config
    /\ api' = [isAuthenticated |-> TRUE, token |-> TRUE]
    /\ authAuth' = TRUE
    /\ IF ~cps.realTimeConnected
       THEN LET x == connectToRealTimeUpdates(rt, cps, api', TRUE)
            IN  Step("AliveConfigLoad", x.c, x.p, 0)
       ELSE Step("AliveConfigLoad", rt, cps, 0)
    /\ UNCHANGED <<apiVars, keyVars, now, activeKeys, returned, variant, player, inflight, forcePending, counted>>

\* The kinds of keys of the model: one that renders the progress and one
\* that does not
KeyCids == {"nowplaying", "like"}

\* plugin.alive, the keys: the keys no longer reported are cleaned up, the
\* new ones are initialised (each initialize...Key marks its key active
\* before its first await), and with YouTube Music keys reported while
\* authenticated and realTimeConnected false, connectToRealTimeUpdates()
AliveKeysEvent(serialNumber, incomingKeyUids) ==
    /\ activeKeys' = pluginAliveKeys(activeKeys, serialNumber, incomingKeyUids)
    /\ IF incomingKeyUids # {} /\ authAuth /\ ~cps.realTimeConnected
       THEN LET x == connectToRealTimeUpdates(rt, cps, api, authAuth)
            IN  Step("AliveKeys", x.c, x.p, 0)
       ELSE Step("AliveKeys", rt, cps, 0)
    /\ UNCHANGED <<apiVars, now, returned, variant, api, authAuth, player,
                   inflight, forcePending, counted>>

\* plugin.alive of one device, with no key or with one key of each kind
AliveKeys ==
    \E incomingKeyUids \in {{}, {NowPlayingUid, LikeUid}} :
        AliveKeysEvent(<<"d1">>, incomingKeyUids) /\ UNCHANGED keyVars

\* ui.message 'ytmusic-connect-realtime'
UiConnectRealtime ==
    /\ authAuth /\ ~rt.isConnected
    /\ LET x == connectToRealTimeUpdates(rt, cps, api, authAuth)
       IN  Step("UiConnectRealtime", x.c, x.p, 0)
    /\ UNCHANGED <<apiVars, keyVars, now, activeKeys, returned, variant, api, authAuth, player, inflight, forcePending,
                   counted>>

ensureRealTimeConnection(c, p, a, auth) ==
    IF ~auth THEN [c |-> c, p |-> p, res |-> "false"]
    ELSE IF p.realTimeConnected /\ c.isConnected
         THEN [c |-> c, p |-> p, res |-> "true"]
    ELSE connectToRealTimeUpdates(
             c, [p EXCEPT !.realTimeConnected = FALSE], a, auth)

EnsureRealTimeConnection ==
    /\ LET x == ensureRealTimeConnection(rt, cps, api, authAuth)
       IN  /\ x.res \notin {"false", "true"}
           /\ Step("EnsureRealTimeConnection", x.c, x.p, 0)
    /\ UNCHANGED <<apiVars, keyVars, now, activeKeys, returned, variant, api, authAuth, player, inflight, forcePending,
                   counted>>

\* ui.message 'ytmusic-disconnect', after clearAuthentication() returned
UiDisconnect ==
    /\ Step("UiDisconnect", disconnect(rt),
            [cps EXCEPT !.realTimeConnected = FALSE], 0)
    /\ UNCHANGED <<apiVars, keyVars, now, activeKeys, returned, variant, api, authAuth, player, inflight, forcePending,
                   counted>>

\* device.status: the keys of the devices not reported are cleaned up, and
\* with no device left a connected channel is disconnected
DeviceStatusEvent(connectedSerialNumbers) ==
    /\ activeKeys' = deviceStatusKeys(activeKeys, connectedSerialNumbers)
    /\ IF connectedSerialNumbers = {} /\ rt.isConnected
       THEN Step("DeviceStatusNoDevice", disconnect(rt),
                 [cps EXCEPT !.realTimeConnected = FALSE], 0)
       ELSE Step("DeviceStatus", rt, cps, 0)
    /\ UNCHANGED <<apiVars, now, returned, variant, api, authAuth, player,
                   inflight, forcePending, counted>>

\* device.status with no device, while the channel is connected
DeviceStatusNoDevice ==
    rt.isConnected /\ DeviceStatusEvent({}) /\ UNCHANGED keyVars

\* forceReconnect(): disconnect(), then a pause of 1 s
ForceReconnect ==
    /\ forcePending < MaxForce
    /\ forcePending' = forcePending + 1
    /\ Step("ForceReconnect", disconnect(rt), cps, 0)
    /\ UNCHANGED <<apiVars, keyVars, now, activeKeys, returned, variant, api, authAuth, player, inflight, counted>>

\* forceReconnect() after the pause: `return await this.connect()`
ForceReconnectResume ==
    /\ forcePending > 0
    /\ forcePending' = forcePending - 1
    /\ Step("ForceReconnectResume", connect(rt, api).c, cps, 0)
    /\ UNCHANGED <<apiVars, keyVars, now, activeKeys, returned, variant, api, authAuth, player, inflight, counted>>

\* ytMusicAuth.clearAuthentication(): ytMusicApi.clearAuth() and the flag
ClearAuthentication ==
    /\ authAuth \/ api.isAuthenticated \/ api.token
    /\ api' = [isAuthenticated |-> FALSE, token |-> FALSE]
    /\ authAuth' = FALSE
    /\ lastOp' = "ClearAuthentication"
    /\ notified' = 0
    /\ UNCHANGED <<apiVars, keyVars, now, activeKeys, returned, variant, rt, cps, player, inflight, forcePending,
                   counted>>

----------------------------------------------------------------------------
(* The player, its push events and the REST pulls *)

PlayerKinds == {"tick", "track", "same"}
Shapes == {"ok", "novideo", "noplayer"}

OtherTitle(t) == IF t = "A" THEN "B" ELSE "A"

\* The player's next state
Advance(pl, kind, shape) ==
    [pl EXCEPT
       !.seq = pl.seq + 1,
       !.title = IF kind = "track" THEN OtherTitle(pl.title) ELSE pl.title,
       !.progress = IF kind = "track" THEN 0
                    ELSE IF kind = "tick" THEN pl.progress + 1
                    ELSE pl.progress,
       !.shape = shape]

\* The socket emits 'state-update': the handler of setupEventHandlers, if
\* this socket has one, runs handleStateUpdate
emitStateUpdate(c, p, raw) ==
    IF c.socket.setup THEN handleStateUpdate(c, p, raw)
    ELSE [c |-> c, p |-> p, n |-> 0]

\* The player's state changes; a connected socket receives the push event
PlayerAdvanceEvent ==
    /\ player.seq < MaxSeq
    /\ \E kind \in PlayerKinds, shape \in Shapes :
         /\ player' = Advance(player, kind, shape)
         /\ IF rt.socket.exists /\ rt.socket.status = "open"
            THEN LET x == emitStateUpdate(rt, cps, player')
                 IN  Step("StateUpdate", x.c, x.p, x.n)
            ELSE Step("PlayerAdvance", rt, cps, 0)
    /\ UNCHANGED <<apiVars, now, activeKeys, returned, variant, api, authAuth,
                   inflight, forcePending, counted>>

PlayerAdvance == PlayerAdvanceEvent /\ UNCHANGED keyVars

Pull(kind, raw) == [kind |-> kind, raw |-> raw]

\* The 500 ms timer of the 'connect' handler: requestInitialState() up to
\* its `await this.ytMusicApi.getCurrentState()`
InitialStateTimer ==
    /\ rt.initTimers > 0
    /\ IF api.isAuthenticated
       THEN /\ BagCardinality(inflight) < MaxInflight
            /\ inflight' = inflight (+) SetToBag({Pull("init", player)})
       ELSE inflight' = inflight
    /\ Step("InitialStateTimer", [rt EXCEPT !.initTimers = @ - 1], cps, 0)
    /\ UNCHANGED <<apiVars, keyVars, now, activeKeys, returned, variant, api, authAuth, player, forcePending, counted>>

\* getCurrentTrackState(): it returns the channel's last state, or null, or
\* runs up to its `await ytMusicApi.getCurrentState()` (makeRequest throws
\* at once when the API is not authenticated)
GetCurrentTrackState ==
    /\ IF cps.realTimeConnected /\ rt.lastState.present
          /\ hasRecentState(rt, 30000)
       THEN /\ returned' = [called |-> TRUE, value |-> rt.lastState]
            /\ inflight' = inflight
            /\ Step("TrackStateCached", rt, cps, 0)
       ELSE IF authAuth /\ api.isAuthenticated
       THEN /\ BagCardinality(inflight) < MaxInflight
            /\ inflight' = inflight (+) SetToBag({Pull("track", player)})
            /\ returned' = returned
            /\ Step("GetCurrentTrackState", rt, cps, 0)
       ELSE /\ returned' = [called |-> TRUE, value |-> NoState]
            /\ inflight' = inflight
            /\ Step("TrackStateNull", rt, cps, 0)
    /\ UNCHANGED <<apiVars, keyVars, now, activeKeys, variant, api, authAuth, player,
                   forcePending, counted>>

\* What getCurrentTrackState() returns after getCurrentState() resolved with
\* `raw`: the snapshot, or null (NoState)
getCurrentTrackStateResult(raw) ==
    LET f == formatTrackState(raw)
    IN  IF f.kind = "ok" THEN f.state ELSE NoState

\* The response of a pull arrives
PullResponse ==
    /\ \E e \in BagToSet(inflight) :
         /\ e.kind \in {"init", "track"}
         /\ inflight' = inflight (-) SetToBag({e})
         /\ IF e.kind = "init"
            THEN LET x == requestInitialStateDone(rt, cps, e.raw)
                 IN  /\ Step("InitialStateResponse", x.c, x.p, x.n)
                     /\ returned' = returned
            ELSE /\ Step("TrackStateResponse", rt,
                         getCurrentTrackStateDone(cps, e.raw), 0)
                 /\ returned' =
                      [called |-> TRUE,
                       value |-> getCurrentTrackStateResult(e.raw)]
    /\ UNCHANGED <<apiVars, keyVars, now, activeKeys, variant, api, authAuth, player,
                   forcePending, counted>>

\* The request of a pull fails: both callers catch the error, and
\* getCurrentTrackState() returns null
PullFailsEvent ==
    /\ \E e \in BagToSet(inflight) :
         /\ e.kind \in {"init", "track"}
         /\ inflight' = inflight (-) SetToBag({e})
         /\ returned' = IF e.kind = "track"
                        THEN [called |-> TRUE, value |-> NoState]
                        ELSE returned
         /\ Step(IF e.kind = "track" THEN "TrackStateFails" ELSE "PullFails",
                 rt, cps, 0)
    /\ UNCHANGED <<config, authInit, keyVars, now, activeKeys, variant, api,
                   authAuth, player, forcePending, counted>>

PullFails == PullFailsEvent /\ UNCHANGED apiCall

\* Time passes: 10 s
Tick ==
    /\ now < MaxNow
    /\ now' = now + 1
    /\ Step("Tick", rt, cps, 0)
    /\ UNCHANGED <<apiVars, keyVars, activeKeys, returned, variant, api, authAuth, player,
                   inflight, forcePending, counted>>

\* The payloads of the 'state-update' event: the player's state with a
\* field missing or changed
TrackStates == {Missing, Num(0), Num(1), Num(2), Num(3)}

Payloads ==
    {[BasePayload EXCEPT !.trackState = t] : t \in TrackStates}
    \cup {[BasePayload EXCEPT !.volume = v] : v \in {Missing, Num(0)}}
    \cup {[BasePayload EXCEPT !.repeatMode = r] :
            r \in {Missing, Num(0), Num(2)}}
    \cup {[BasePayload EXCEPT !.progress = g] : g \in {1, 2, 5}}
    \cup {[BasePayload EXCEPT !.title = t, !.id = i] :
            t \in {"", "B"}, i \in {"", "v1"}}
    \cup {[BasePayload EXCEPT !.author = a] : a \in {"", "Y"}}
    \cup {[BasePayload EXCEPT !.likeStatus = l] : l \in {Missing, Num(2)}}
    \cup {[BasePayload EXCEPT !.shape = h] :
            h \in {"null", "novideo", "noplayer"}}

\* The open socket receives a 'state-update' event with any payload
PayloadArrives ==
    /\ player.seq < MaxSeq
    /\ rt.socket.exists /\ rt.socket.status = "open"
    /\ \E raw \in Payloads :
         /\ player' = [raw EXCEPT !.seq = player.seq + 1]
         /\ LET x == emitStateUpdate(rt, cps, player')
            IN  Step("StateUpdate", x.c, x.p, x.n)
    /\ UNCHANGED <<apiVars, keyVars, now, activeKeys, returned, variant, api, authAuth,
                   inflight, forcePending, counted>>

----------------------------------------------------------------------------
(* YouTubeMusicApi: makeRequest and its callers *)

\* How the request of a call ends: a 2xx response, status 401, status 429
\* with 'Rate limit exceeded', or another failure (another status, or fetch
\* rejects)
Outcomes == {"ok", "unauthorized", "ratelimit", "failed"}

\* error.message of the error makeRequest throws for a failed request
ErrorOf(outcome) ==
    IF outcome = "unauthorized" THEN "API request failed: 401"
    ELSE IF outcome = "ratelimit"
         THEN "API request failed: 429 Rate limit exceeded"
    ELSE "API request failed"

NotAuthenticatedError ==
    "Not authenticated with YouTube Music Companion Server"

\* error.message.includes('Not authenticated')
IsNotAuthenticated(error) ==
    error \in {NotAuthenticatedError, "Not authenticated"}

\* error.message.includes('429') && error.message.includes('Rate limit
\* exceeded')
IsRateLimit(error) == error = ErrorOf("ratelimit")

\* makeRequest() without its check of isAuthenticated
makeRequestNoAuthCheck(a) ==
    [res |-> "pending", error |-> "", requests |-> 1]

\* makeRequest() up to its `await fetch(url, options)`: it throws at once
\* when the API is not authenticated, else it sends one request
makeRequest(a) ==
    IF ~a.isAuthenticated
    THEN [res |-> "throw", error |-> NotAuthenticatedError, requests |-> 0]
    ELSE [res |-> "pending", error |-> "", requests |-> 1]

\* makeRequest() after fetch settled: what it returns or throws, and the
\* requests it sends then
makeRequestDone(outcome) ==
    IF outcome = "ok" THEN [res |-> "return", error |-> "", requests |-> 0]
    ELSE [res |-> "throw", error |-> ErrorOf(outcome), requests |-> 0]

\* getCurrentState() and sendCommand(): `await this.makeRequest(...)` in a
\* try whose catch logs and throws the error again
getCurrentState(a) == makeRequest(a)

getCurrentStateDone(outcome) == makeRequestDone(outcome)

sendCommand(a) == makeRequest(a)

sendCommandDone(outcome) == makeRequestDone(outcome)

\* setToken(token, appId)
setToken(a) == [isAuthenticated |-> TRUE, token |-> TRUE]

\* clearAuth()
clearAuth(a) == [isAuthenticated |-> FALSE, token |-> FALSE]

\* The record of an invocation of makeRequest by `caller`, with API `a`
ApiCall(caller, a, r) ==
    [caller |-> caller, phase |-> "call", authenticated |-> a.isAuthenticated,
     outcome |-> "none", res |-> r.res, error |-> r.error,
     requests |-> r.requests]

\* The record of an invocation when its request ended with `outcome`
ApiDone(caller, outcome, r) ==
    [caller |-> caller, phase |-> "done", authenticated |-> TRUE,
     outcome |-> outcome, res |-> r.res, error |-> r.error,
     requests |-> 1 + r.requests]

\* A command of a key in flight
Command(serialNumber, uid) ==
    [kind |-> "command", raw |-> player, serialNumber |-> serialNumber,
     uid |-> uid]

\* A render or wait of a key in progress
Job(serialNumber, uid, stage, init) ==
    [serialNumber |-> serialNumber, uid |-> uid, stage |-> stage,
     init |-> init]

\* plugin.data for a key: the key is registered again when inactive, then
\* handle...Interaction runs up to its `await ytMusicApi....()`, into its
\* catch block when not authenticated
PluginDataOf(serialNumber, uid) ==
    /\ activeKeys' = activeKeys \cup {KeyIdOf(serialNumber, uid)}
    /\ IF ~authAuth
       THEN /\ inflight' = inflight
            /\ apiCall' = NoApiCall
            /\ Step("CommandNotAuthenticated", rt, cps, 0)
       ELSE LET r == sendCommand(api)
            IN  /\ apiCall' = ApiCall("sendCommand", api, r)
                /\ IF r.res = "throw"
                   THEN /\ inflight' = inflight
                        /\ Step("CommandNotAuthenticated", rt, cps, 0)
                   ELSE /\ BagCardinality(inflight) < MaxInflight
                        /\ inflight' = inflight
                                         (+) SetToBag({Command(serialNumber, uid)})
                        /\ Step("PluginData", rt, cps, 0)
    /\ hostReport' = [kind |-> "data", serialNumber |-> serialNumber,
                      uid |-> uid]
    /\ drawn' = {}
    /\ shown' = IF lastOp' = "CommandNotAuthenticated"
                THEN {showAuthError(notificationLevel, serialNumber)}
                ELSE {}
    /\ UNCHANGED <<notificationLevel, keyData, pressed, authFlow>>
    /\ UNCHANGED <<config, authInit, jobs, drawLog, fanout, now, returned,
                   variant, api, authAuth, player, forcePending, counted>>

PluginData == \E serialNumber \in Serials, uid \in Uids :
                  PluginDataOf(serialNumber, uid)

\* plugin.data for the now-playing key of one device
PluginDataOne == PluginDataOf(<<"d1">>, NowPlayingUid)

\* The request of a command ends: after success the display of the key is
\* updated 500 ms later; the catch block shows a notification
CommandResponse ==
    /\ \E e \in BagToSet(inflight), outcome \in Outcomes :
         /\ e.kind = "command"
         /\ inflight' = inflight (-) SetToBag({e})
         /\ shown' = {showErrorNotification(
                          notificationLevel, e.serialNumber,
                          IF outcome = "ok" THEN "done" ELSE "failure",
                          IF outcome = "ok" THEN "info" ELSE "error")}
         /\ LET r == sendCommandDone(outcome)
            IN  /\ apiCall' = ApiDone("sendCommand", outcome, r)
                /\ IF r.res = "return"
                   THEN /\ jobs' = jobs \cup {Job(e.serialNumber, e.uid,
                                                  "timer", FALSE)}
                        /\ Step("CommandResponse", rt, cps, 0)
                   ELSE /\ jobs' = jobs
                        /\ Step(IF outcome = "unauthorized"
                                THEN "CommandUnauthorized"
                                ELSE "CommandFails", rt, cps, 0)
    /\ UNCHANGED <<notificationLevel, keyData, pressed, authFlow>>
    /\ drawn' = {}
    /\ hostReport' = NoReport
    /\ UNCHANGED <<config, authInit, drawLog, fanout, now, activeKeys,
                   returned, variant, api, authAuth, player, forcePending,
                   counted>>

\* The request of a pull fails, with the way the request failed on record
PullFailsWith ==
    \E outcome \in Outcomes \ {"ok"} :
        /\ PullFailsEvent
        /\ apiCall' = ApiDone("getCurrentState", outcome,
                              getCurrentStateDone(outcome))

----------------------------------------------------------------------------
(* YouTubeMusicAuth: initializeAuthentication *)

MaxRetries == 10

\* The catch block of the loop, after the error of attempt `attempt`: wait
\* and try again, or leave the loop
afterError(attempt, error) ==
    IF IsRateLimit(error)
    THEN IF attempt < MaxRetries - 1 THEN "wait" ELSE "break"
    ELSE "break"

\* The loop reaches getCurrentState() of attempt `attempt`: the request is
\* sent, or makeRequest throws at once and the catch block runs; after the
\* loop, clearAuthentication() clears the API and the flag and waits for
\* the config
tryAttempt(ai, a, attempt) ==
    LET r == getCurrentState(a)
    IN  IF r.res = "pending"
        THEN [ai |-> [ai EXCEPT !.pc = "request", !.attempt = attempt,
                                !.requests = @ + 1],
              a |-> a, cleared |-> FALSE, r |-> r]
        ELSE IF afterError(attempt, r.error) = "wait"
        THEN [ai |-> [ai EXCEPT !.pc = "wait", !.attempt = attempt,
                                !.lastError = r.error],
              a |-> a, cleared |-> FALSE, r |-> r]
        ELSE [ai |-> [ai EXCEPT !.pc = "clearing", !.attempt = attempt,
                                !.lastError = r.error],
              a |-> clearAuth(a), cleared |-> TRUE, r |-> r]

\* 'ready': initializeAuthentication() up to its first request, the config
\* read; without saved credentials it returns false
InitializeAuthentication ==
    /\ authInit.pc = "idle"
    /\ IF ~config
       THEN /\ authInit' = [authInit EXCEPT !.pc = "done", !.result = "false"]
            /\ api' = api
            /\ authAuth' = authAuth
            /\ apiCall' = apiCall
            /\ Step("AuthInitNoCredentials", rt, cps, 0)
       ELSE LET x == tryAttempt(authInit, setToken(api), 0)
            IN  /\ authInit' = x.ai
                /\ api' = x.a
                /\ authAuth' = IF x.cleared THEN FALSE ELSE authAuth
                /\ apiCall' = ApiCall("validate", setToken(api), x.r)
                /\ Step("InitializeAuthentication", rt, cps, 0)
    /\ UNCHANGED <<config, keyVars, now, activeKeys, returned, variant,
                   player, inflight, forcePending, counted>>

\* The request of the validation ends
ValidationResponse ==
    /\ authInit.pc = "request"
    /\ \E outcome \in Outcomes :
         LET r == getCurrentStateDone(outcome)
         IN  /\ apiCall' = ApiDone("validate", outcome, r)
             /\ IF r.res = "return"
                THEN /\ authAuth' = TRUE
                     /\ api' = api
                     /\ authInit' = [authInit EXCEPT !.pc = "done",
                                                     !.result = "true"]
                     /\ Step("AuthInitValid", rt, cps, 0)
                ELSE IF afterError(authInit.attempt, r.error) = "wait"
                THEN /\ authAuth' = authAuth
                     /\ api' = api
                     /\ authInit' = [authInit EXCEPT !.pc = "wait",
                                                     !.lastError = r.error]
                     /\ Step("ValidationFails", rt, cps, 0)
                ELSE /\ authAuth' = FALSE
                     /\ api' = clearAuth(api)
                     /\ authInit' = [authInit EXCEPT !.pc = "clearing",
                                                     !.lastError = r.error]
                     /\ Step("ValidationFails", rt, cps, 0)
    /\ UNCHANGED <<config, keyVars, now, activeKeys, returned, variant,
                   player, inflight, forcePending, counted>>

\* The timer of the wait after a rate-limit error: the next attempt
RetryTimer ==
    /\ authInit.pc = "wait"
    /\ LET x == tryAttempt(authInit, api, authInit.attempt + 1)
       IN  /\ authInit' = x.ai
           /\ api' = x.a
           /\ authAuth' = IF x.cleared THEN FALSE ELSE authAuth
           /\ apiCall' = ApiCall("validate", api, x.r)
           /\ Step("ValidationRetry", rt, cps, 0)
    /\ UNCHANGED <<config, keyVars, now, activeKeys, returned, variant,
                   player, inflight, forcePending, counted>>

\* clearAuthentication() of initializeAuthentication: plugin.getConfig()
\* resolved, plugin.setConfig() is called
ClearGetConfig ==
    /\ authInit.pc = "clearing"
    /\ authInit' = [authInit EXCEPT !.pc = "saving"]
    /\ Step("ClearGetConfig", rt, cps, 0)
    /\ UNCHANGED <<config, apiCall, keyVars, now, activeKeys, returned,
                   variant, api, authAuth, player, inflight, forcePending,
                   counted>>

\* plugin.setConfig() resolved: the saved credentials are gone,
\* clearAuthentication() returns and initializeAuthentication() returns
\* false
ClearSetConfig ==
    /\ authInit.pc = "saving"
    /\ config' = FALSE
    /\ authInit' = [authInit EXCEPT !.pc = "done", !.result = "false"]
    /\ Step("AuthInitReturnsFalse", rt, cps, 0)
    /\ UNCHANGED <<apiCall, keyVars, now, activeKeys, returned, variant, api,
                   authAuth, player, inflight, forcePending, counted>>

----------------------------------------------------------------------------
(* The keys: initialisation, display updates and draw calls *)

Range(seq) == {seq[i] : i \in 1..Len(seq)}

\* What the display of a key shows
Content(p, uid) ==
    IF CidOf(uid) = "like" THEN "like"
    ELSE IF p.currentTrack.present THEN "track"
    ELSE "nothing playing"

\* The plugin.draw calls of simpleDraw or textOnlyDraw for a key: each call
\* is on record with what the registry says of its key and of its device
draw(keys, serialNumber, uid, content) ==
    IF simpleDraw(keys, serialNumber, uid)
    THEN <<[key |-> KeyIdOf(serialNumber, uid), content |-> content,
            active |-> KeyIdOf(serialNumber, uid) \in keys,
            deviceActive |-> \E u \in Uids :
                                 KeyIdOf(serialNumber, u) \in keys]>>
    ELSE <<>>

NoJobs == [jobs |-> {}, draws |-> <<>>]

\* update...KeyDisplay(serialNumber, key) up to its first wait: nothing for
\* an inactive key; the render of a now-playing key with a track loads the
\* album art, every other render is drawn at once. With `fails` the render
\* throws and the catch block draws the text
updateKeyDisplay(keys, p, call, init, fails) ==
    IF KeyIdOf(call.serialNumber, call.uid) \notin keys THEN NoJobs
    ELSE IF fails
    THEN [jobs |-> {},
          draws |-> draw(keys, call.serialNumber, call.uid, "error")]
    ELSE IF CidOf(call.uid) = "nowplaying" /\ p.currentTrack.present
    THEN [jobs |-> {Job(call.serialNumber, call.uid, "render", init)},
          draws |-> <<>>]
    ELSE [jobs |-> {},
          draws |-> draw(keys, call.serialNumber, call.uid,
                         Content(p, call.uid))]

\* The update...KeyDisplay calls `calls`, those of `failing` with a render
\* that throws
RECURSIVE updateKeys(_, _, _, _)
updateKeys(keys, p, calls, failing) ==
    IF calls = {} THEN NoJobs
    ELSE LET call == CHOOSE c \in calls : TRUE
             r == updateKeyDisplay(keys, p, call, FALSE, call \in failing)
             rest == updateKeys(keys, p, calls \ {call}, failing)
         IN  [jobs |-> r.jobs \cup rest.jobs, draws |-> r.draws \o rest.draws]

\* initializeNowPlayingKey / initializeLikeKey after the key was marked
\* active, up to the first wait: the now-playing key draws its loading
\* image and, when authenticated, fetches the player's state
initializeKey(keys, p, a, auth, serialNumber, uid) ==
    LET call == [serialNumber |-> serialNumber, uid |-> uid]
        display == updateKeyDisplay(keys, p, call, TRUE, FALSE)
    IN  IF CidOf(uid) = "nowplaying"
        THEN LET loading == draw(keys, serialNumber, uid, "loading")
             IN  IF auth /\ getCurrentState(a).res = "pending"
                 THEN [jobs |-> {Job(serialNumber, uid, "fetch", TRUE)},
                       draws |-> loading]
                 ELSE [jobs |-> display.jobs,
                       draws |-> loading \o display.draws]
        ELSE display

\* The notifications of initializeNowPlayingKey up to its first wait: when
\* getCurrentState() throws at once, the catch block shows the
\* authentication-required message for the error 'Not authenticated ...'
initializeKeyNotes(levelName, a, auth, serialNumber, uid) ==
    LET r == getCurrentState(a)
    IN  IF CidOf(uid) = "nowplaying" /\ auth /\ r.res = "throw"
        THEN IF IsNotAuthenticated(r.error)
             THEN {showAuthError(levelName, serialNumber)}
             ELSE {showErrorNotification(levelName, serialNumber,
                                         "failure", "warning")}
        ELSE {}

RECURSIVE initializeKeys(_, _, _, _, _, _)
initializeKeys(keys, p, a, auth, serialNumber, uids) ==
    IF uids = {} THEN NoJobs
    ELSE LET uid == CHOOSE u \in uids : TRUE
             r == initializeKey(keys, p, a, auth, serialNumber, uid)
             rest == initializeKeys(keys, p, a, auth, serialNumber,
                                    uids \ {uid})
         IN  [jobs |-> r.jobs \cup rest.jobs, draws |-> r.draws \o rest.draws]

\* initializeNowPlayingKey after getCurrentState() resolved with `raw`
initializeNowPlayingKeyDone(p, raw) ==
    LET f == formatTrackState(raw)
    IN  IF f.kind = "ok" /\ f.state.title # ""
        THEN updateCurrentPlaybackStateFromTrack(p, f.state)
        ELSE p

\* Some initialize...Key promise of the plugin.alive of this device is
\* still pending
InitPending(js, serialNumber) ==
    \E j \in js : j.init /\ j.serialNumber = serialNumber

\* Promise.all(initPromises).then(updateAllActiveKeys), when no promise of
\* the batch is pending
batchDone(keys, p, js, serialNumber) ==
    IF InitPending(js, serialNumber) THEN NoJobs
    ELSE updateKeys(keys, p, updateAllActiveKeys(keys), {})

\* The contents of the draw calls of `draws` for the key `keyId`
ContentsOf(draws, keyId) ==
    LET sel == SelectSeq(draws, LAMBDA d : d.key = keyId)
    IN  [i \in 1..Len(sel) |-> sel[i].content]

Capped(seq) == IF Len(seq) > MaxDraws THEN SubSeq(seq, 1, MaxDraws) ELSE seq

\* drawLog after the draw calls `draws`, with the keys `new` observed from
\* now on
LogDraws(log, new, draws) ==
    [k \in DOMAIN log \cup new |->
        Capped((IF k \in new THEN <<>> ELSE log[k]) \o ContentsOf(draws, k))]

\* plugin.alive for a device with its keys: after the registry, each new
\* key is initialised up to its first wait, and the two
\* .then(updateAllActiveKeys) run when their promise resolves at once
PluginAliveOf(serialNumber, incomingKeyUids) ==
    /\ AliveKeysEvent(serialNumber, incomingKeyUids)
    /\ LET inits == keysToInitialize(activeKeys, serialNumber,
                                     incomingKeyUids)
           i == initializeKeys(activeKeys', cps, api, authAuth,
                               serialNumber, inits)
           connected ==
               IF /\ incomingKeyUids # {} /\ authAuth
                  /\ ~cps.realTimeConnected
                  /\ connectToRealTimeUpdates(rt, cps, api, authAuth).res
                       = "ok"
               THEN updateKeys(activeKeys', cps', updateAllActiveKeys(
                                   activeKeys'), {})
               ELSE NoJobs
           b == batchDone(activeKeys', cps', i.jobs, serialNumber)
           draws == i.draws \o connected.draws \o b.draws
       IN  /\ inits # {} => ~InitPending(jobs, serialNumber)
           /\ jobs' = jobs \cup i.jobs \cup connected.jobs \cup b.jobs
           /\ Cardinality(jobs') <= MaxJobs
           /\ drawn' = Range(draws)
           /\ drawLog' =
                LogDraws(drawLog,
                         {KeyIdOf(serialNumber, uid) :
                            uid \in {u \in inits :
                                       /\ CidOf(u) = "nowplaying"
                                       /\ cps.currentTrack.present}},
                         draws)
    /\ hostReport' = [kind |-> "alive", serialNumber |-> serialNumber,
                      uids |-> incomingKeyUids]
    /\ fanout' = NoFanout
    /\ shown' = UNION {initializeKeyNotes(notificationLevel, api, authAuth,
                                          serialNumber, uid) :
                         uid \in keysToInitialize(activeKeys, serialNumber,
                                                  incomingKeyUids)}
    /\ UNCHANGED <<notificationLevel, keyData, pressed, authFlow>>

\* What the device reports of its keys where the displays are followed
Reports == {{}, {NowPlayingUid}, {LikeUid}, {NowPlayingUid, LikeUid}}

\* plugin.alive of one device
PluginAlive ==
    \E incomingKeyUids \in Reports :
        PluginAliveOf(<<"d1">>, incomingKeyUids)

\* plugin.alive with any set of keys
PluginAliveAny ==
    \E serialNumber \in Serials, incomingKeyUids \in SUBSET Uids :
        PluginAliveOf(serialNumber, incomingKeyUids)

\* device.status with any set of devices: the renders in progress go on
DeviceStatus ==
    \E connectedSerialNumbers \in SUBSET Serials :
        /\ DeviceStatusEvent(connectedSerialNumbers)
        /\ hostReport' = [kind |-> "status",
                          devices |-> connectedSerialNumbers]
        /\ drawn' = {}
        /\ fanout' = NoFanout
        /\ shown' = {}
        /\ UNCHANGED <<jobs, drawLog, notificationLevel, keyData, pressed,
                       authFlow>>

\* How a wait of a key ends: the request fails, or plugin.draw throws
\* 'not alive'
JobOutcomes == {"ok", "failed"}

\* A wait of a key ends: the registry, currentPlaybackState, the new waits
\* and the draw calls
jobStep(keys, p, j, outcome) ==
    LET call == [serialNumber |-> j.serialNumber, uid |-> j.uid]
    IN  IF j.stage = "fetch"
        THEN LET p1 == IF outcome = "ok"
                       THEN initializeNowPlayingKeyDone(p, player)
                       ELSE p
                 u == updateKeyDisplay(keys, p1, call, TRUE, FALSE)
             IN  [keys |-> keys, p |-> p1, jobs |-> u.jobs, draws |-> u.draws]
        ELSE IF j.stage = "render"
        THEN LET d == draw(keys, j.serialNumber, j.uid, Content(p, j.uid))
             IN  IF outcome = "failed" /\ d # <<>>
                 THEN [keys |-> cleanupKey(keys, j.serialNumber, j.uid),
                       p |-> p, jobs |-> {},
                       draws |-> d \o draw(keys, j.serialNumber, j.uid,
                                           "text")]
                 ELSE [keys |-> keys, p |-> p, jobs |-> {}, draws |-> d]
        ELSE LET u == updateKeyDisplay(keys, p, call, FALSE, FALSE)
             IN  [keys |-> keys, p |-> p, jobs |-> u.jobs, draws |-> u.draws]

\* The response of the fetch of a key initialisation, the image of a render
\* or the 500 ms timer after a command
JobDone ==
    /\ \E j \in jobs, outcome \in JobOutcomes :
         /\ j.stage = "timer" => outcome = "ok"
         /\ LET x == jobStep(activeKeys, cps, j, outcome)
                rest == (jobs \ {j}) \cup x.jobs
                b == IF j.init
                     THEN batchDone(x.keys, x.p, rest, j.serialNumber)
                     ELSE NoJobs
            IN  /\ activeKeys' = x.keys
                /\ jobs' = rest \cup b.jobs
                /\ Cardinality(jobs') <= MaxJobs
                /\ drawn' = Range(x.draws \o b.draws)
                /\ drawLog' = LogDraws(drawLog, {}, x.draws \o b.draws)
                /\ Step("JobDone", rt, x.p, 0)
         /\ hostReport' = [kind |-> "job", stage |-> j.stage,
                           serialNumber |-> j.serialNumber, uid |-> j.uid]
         /\ shown' = IF j.stage = "fetch" /\ outcome = "failed"
                     THEN {showErrorNotification(
                               notificationLevel, j.serialNumber, "failure",
                               "warning")}
                     ELSE {}
    /\ fanout' = NoFanout
    /\ UNCHANGED <<notificationLevel, keyData, pressed, authFlow>>
    /\ UNCHANGED <<apiVars, now, returned, variant, api, authAuth, player,
                   inflight, forcePending, counted>>

\* The forEach of handleStateUpdate over n callbacks, those of `faulty`
\* throwing, without the try/catch around each call: the first exception
\* ends the loop, in the catch block of handleStateUpdate
notifyCallbacksNoCatch(n, faulty) ==
    [invoked |-> {i \in 1..n : \A f \in faulty : i <= f}, escaped |-> FALSE]

\* The forEach of handleStateUpdate over n callbacks, those of `faulty`
\* throwing: each call is in a try/catch that logs
notifyCallbacks(n, faulty) == [invoked |-> 1..n, escaped |-> FALSE]

\* The player changes the track and the push is fanned out: a callback of
\* `faulty` throws in its updateAllActiveKeys() before the first key, and
\* the render of a key of `failing` throws
StateUpdateFanout ==
    /\ PlayerAdvanceEvent
    /\ player'.shape = "ok" /\ player'.title # player.title
    /\ \E faulty \in SUBSET {1}, failing \in SUBSET updateAllActiveKeys(activeKeys) :
         /\ Cardinality(failing) <= 1
         /\ notified' = 0 => faulty = {} /\ failing = {}
         /\ LET r == notifyCallbacks(notified', faulty)
                calls == IF r.invoked \ faulty # {}
                         THEN updateAllActiveKeys(activeKeys) ELSE {}
                u == updateKeys(activeKeys, cps', calls, failing)
            IN  /\ jobs' = jobs \cup u.jobs
                /\ Cardinality(jobs') <= MaxJobs
                /\ drawn' = Range(u.draws)
                /\ shown' = {showErrorNotification(
                                 notificationLevel, call.serialNumber,
                                 "failure", "error") :
                               call \in calls \cap failing}
                /\ fanout' = IF notified' = 0 THEN NoFanout
                             ELSE [callbacks |-> notified', faulty |-> faulty,
                                   failing |-> failing,
                                   invoked |-> r.invoked, calls |-> calls,
                                   escaped |-> r.escaped]
    /\ drawLog' = IF lastOp' = "StateUpdate" THEN <<>> ELSE drawLog
    /\ hostReport' = NoReport
    /\ UNCHANGED <<notificationLevel, keyData, pressed, authFlow>>

----------------------------------------------------------------------------
(* Specifications *)

\* The connection lifecycle: every event, timer and caller of the channel,
\* with the player's state fixed
Next ==
    \/ SocketConnect
    \/ SocketConnectError
    \/ SocketDisconnect
    \/ SocketError
    \/ ConnectTimeout
    \/ StaleConnectTimeout
    \/ ReconnectTimer
    \/ AliveConfigLoad
    \/ AliveKeys
    \/ UiConnectRealtime
    \/ EnsureRealTimeConnection
    \/ UiDisconnect
    \/ DeviceStatusNoDevice
    \/ ForceReconnect
    \/ ForceReconnectResume
    \/ ClearAuthentication
    \/ InitialStateTimer
    \/ PullResponse
    \/ PullFails

Spec == Init /\ [][Next]_vars

\* The same with the copy of the class in src/unnamed/part_005
SpecPart005 == InitPart005 /\ [][Next]_vars

\* The runs of the automatic reconnect: after the first request to connect,
\* no 'connect' event and no call of connect(), disconnect() or
\* forceReconnect() from outside the class
FirstConnect == lastOp = "init" /\ AliveConfigLoad

CountedReconnectTimer ==
    /\ ReconnectTimerFires
    /\ counted' = [counted EXCEPT !.auto = Min(@ + 1, MaxAuto)]

CountedConnectError ==
    /\ SocketConnectErrorEvent
    /\ counted' = [counted EXCEPT !.failures = Min(@ + 1, MaxFailures)]

CountedConnectTimeout ==
    /\ ConnectTimeoutFires
    /\ counted' = [counted EXCEPT !.failures = Min(@ + 1, MaxFailures)]

NextAuto ==
    \/ FirstConnect
    \/ CountedConnectError
    \/ CountedConnectTimeout
    \/ CountedReconnectTimer
    \/ ClearAuthentication

SpecAuto == Init /\ [][NextAuto]_vars

\* The data path: a connected channel, the player's changes and the pulls
NextData ==
    \/ FirstConnect
    \/ SocketConnect
    \/ SocketDisconnect
    \/ PlayerAdvance
    \/ InitialStateTimer
    \/ GetCurrentTrackState
    \/ PullResponse
    \/ PullFails

SpecData == Init /\ [][NextData]_vars

\* The push path: a connected channel with keys shown receives payloads of
\* every shape while time passes
NextPayload ==
    \/ FirstConnect
    \/ AliveKeys
    \/ SocketConnect
    \/ PayloadArrives
    \/ Tick

SpecPayload == Init /\ [][NextPayload]_vars

\* The callers of getCurrentTrackState(): the channel, the player, the
\* clock and the REST pulls of the entry point
NextTrack ==
    \/ FirstConnect
    \/ SocketConnect
    \/ PlayerAdvance
    \/ Tick
    \/ GetCurrentTrackState
    \/ PullResponse
    \/ PullFails

SpecTrack == Init /\ [][NextTrack]_vars

\* The REST client and its callers next to a channel that connects: the
\* validation of saved credentials at startup, the commands of a key and
\* the pulls
NextApi ==
    \/ FirstConnect
    \/ SocketConnect
    \/ InitializeAuthentication
    \/ ValidationResponse
    \/ RetryTimer
    \/ ClearGetConfig
    \/ ClearSetConfig
    \/ ClearAuthentication
    \/ PluginDataOne
    \/ CommandResponse
    \/ GetCurrentTrackState
    \/ PullFailsWith

SpecApi == Init /\ [][NextApi]_vars

\* The validation of saved credentials at startup next to plugin.alive
NextAuth ==
    \/ InitializeAuthentication
    \/ ValidationResponse
    \/ RetryTimer
    \/ ClearGetConfig
    \/ ClearSetConfig
    \/ AliveConfigLoad
    \/ SocketConnect
    \/ ClearAuthentication

SpecAuth == Init /\ [][NextAuth]_vars

\* The registry of the active keys under the reports of the host
NextReg ==
    \/ PluginAliveAny
    \/ DeviceStatus
    \/ PluginData

SpecReg == Init /\ [][NextReg]_vars

\* The displays of the keys: a connected channel, the pushes and their
\* fan-out, the reports of the host and the waits of the keys
NextKeys ==
    \/ FirstConnect
    \/ SocketConnect
    \/ StateUpdateFanout
    \/ PluginAlive
    \/ DeviceStatus
    \/ JobDone

SpecKeys == Init /\ [][NextKeys]_vars

TypeOK ==
    /\ variant \in {"src", "part_005"}
    /\ rt.reconnectAttempts \in 0..rt.maxReconnectAttempts
    /\ rt.socket.status \in {"opening", "open", "closed"}
    /\ counted.auto \in 0..MaxAuto
    /\ counted.failures \in 0..MaxFailures

----------------------------------------------------------------------------
(* Claims *)

\* C1: in a run with no 'connect' event and no call of connect(),
\* disconnect() or forceReconnect() from outside the class after the first
\* request, the reconnect timer runs connect() at most 5 times.
C1_AtMostFiveAutomaticAttempts == counted.auto <= rt.maxReconnectAttempts

\* C2: when a caller calls disconnect() while a reconnect timer is pending,
\* the timer is cancelled, so that no timer-driven connect() follows.
C2_DisconnectCancelsReconnectTimer ==
    lastOp \in {"UiDisconnect", "DeviceStatusNoDevice"} => rt.timer = NoTimer

\* C3: for N in 1..5, the reconnect timer scheduled by the N-th connection
\* failure in a row has the delay min(500 * 2^N, 30000) ms.
C3_DelayIsBaseTimesTwoToTheN ==
    (lastOp = "SocketConnectError" /\ rt.timer # NoTimer
        /\ counted.failures <= rt.maxReconnectAttempts)
        => rt.timer = Min(ConnectedReconnectDelay * Pow2(counted.failures),
                          MaxDelay)

\* C4: one 'disconnect' event with a reason other than 'io client
\* disconnect' raises reconnectAttempts by exactly 1; delivered to a
\* connected channel whose counter is 0 it leaves the counter at 1 and a
\* timer of 500 ms pending.
C4_DisconnectCountsOnce ==
    [][lastOp' = "SocketDisconnect"
        => /\ rt'.reconnectAttempts = rt.reconnectAttempts + 1
           /\ (rt.isConnected /\ rt.reconnectAttempts = 0)
                => (rt'.reconnectAttempts = 1
                    /\ rt'.timer = ConnectedReconnectDelay)]_vars

NotAuthenticated == ~api.isAuthenticated \/ ~api.token

\* C5: while the API is not authenticated or has no token, no step creates
\* a socket or enters the connecting state, a connect() that reaches the
\* check throws, and a connect() run by the reconnect timer leaves no
\* reconnect timer pending.
C5_NoConnectionAttemptWithoutAuth ==
    [][(NotAuthenticated /\ api' = api)
        => /\ rt'.connecting => rt.connecting
           /\ rt'.socket.exists => rt.socket.exists
           /\ rt'.attempt.timeout => rt.attempt.timeout
           /\ (~rt.connecting /\ ~rt.isConnected)
                => connect(rt, api).res = "throw"
           /\ lastOp' = "ReconnectTimer" => rt'.timer = NoTimer]_vars

\* The reconnect timer ran connect() after the token was cleared: the socket
\* of the failed attempt is gone and none was created
C5_Witness ==
    /\ lastOp = "ReconnectTimer"
    /\ NotAuthenticated
    /\ ~rt.socket.exists
    /\ rt.timer = NoTimer

\* C6: the stored player state never goes back to older data: neither
\* lastState nor currentPlaybackState.currentTrack is replaced by a state
\* the player had before the one stored.
C6_StoredStateNeverRegresses ==
    [][/\ rt'.lastState.seq >= rt.lastState.seq
       /\ cps'.currentTrack.seq >= cps.currentTrack.seq]_vars

\* C7: the socket the channel holds has exactly one 'state-update' handler.
C7_OneStateUpdateHandler == rt.socket.exists => rt.socket.setup

\* C8: at most one callback of the entry point is registered in
\* stateUpdateCallbacks, and a notified update runs it exactly once.
C8_OneCoordinatorCallback ==
    /\ Len(rt.stateUpdateCallbacks) <= 1
    /\ notified <= 1

\* C9: the 15 s timer of an attempt that a caller ended with disconnect()
\* never acts on a later attempt: when it fires, the socket, connecting and
\* isConnected stay as they are.
C9_StaleTimeoutLeavesLaterAttempt ==
    [][lastOp' = "StaleConnectTimeout"
        => /\ rt'.socket = rt.socket
           /\ rt'.connecting = rt.connecting
           /\ rt'.isConnected = rt.isConnected]_vars

\* C10: when the 15 s timer of the attempt fires, the socket is torn down,
\* connecting is false, and a reconnect is scheduled as for a connect
\* failure: the attempt counter is raised and a reconnect timer is pending.
C10_TimeoutFeedsBackoff ==
    lastOp = "ConnectTimeout"
        => /\ ~rt.socket.exists
           /\ ~rt.connecting
           /\ rt.reconnectAttempts >= 1
           /\ rt.timer # NoTimer

\* The operations that call connect(), directly or through
\* connectToRealTimeUpdates()
ConnectCallers ==
    {"ReconnectTimer", "ForceReconnectResume", "AliveConfigLoad",
     "AliveKeys", "UiConnectRealtime", "EnsureRealTimeConnection"}

\* C11: connect() called while connecting is true returns false; it
\* creates no second socket and no second attempt, and leaves connecting,
\* isConnected and reconnectAttempts as they are.
C11_ConnectWhileConnecting ==
    [][(rt.connecting /\ lastOp' \in ConnectCallers)
        => /\ connect(rt, api).res = "false"
           /\ rt'.socket = rt.socket
           /\ rt'.attempt.timeout = rt.attempt.timeout
           /\ rt'.stale = rt.stale
           /\ rt'.connecting
           /\ rt'.isConnected = rt.isConnected
           /\ rt'.reconnectAttempts = rt.reconnectAttempts]_vars

\* The reconnect timer called connect() during the attempt that
\* connectToRealTimeUpdates() started and awaits: the attempt is still the
\* one in flight
C11_Witness ==
    /\ lastOp = "ReconnectTimer"
    /\ rt.connecting
    /\ rt.attempt.timeout /\ rt.attempt.waiter

\* C12: after a 'connect' event isConnected is true, connecting is false
\* and reconnectAttempts is 0; and in every state in which isConnected is
\* true, reconnectAttempts is 0.
C12_ConnectedMeansCounterZero ==
    /\ lastOp = "SocketConnect"
         => (rt.isConnected /\ ~rt.connecting /\ rt.reconnectAttempts = 0)
    /\ rt.isConnected => rt.reconnectAttempts = 0

\* A 'connect' event after a failure that had scheduled a reconnect: the
\* library connected the same socket again and the counter is back to 0
C12_Witness ==
    /\ lastOp = "SocketConnect"
    /\ rt.timer # NoTimer
    /\ rt.isConnected /\ rt.reconnectAttempts = 0

\* The snapshot of a payload, stamped with the time t
Stamped(raw, t) == [formatTrackState(raw).state EXCEPT !.lastUpdate = t]

\* C13: a push payload that formatTrackState maps to a snapshot replaces
\* lastState by that snapshot stamped with the arrival time, meaningful or
\* not; the registered callbacks run, each once and in registration order,
\* exactly when shouldNotifyStateChange returned true for it.
C13_PushReplacesLastState ==
    [][(lastOp' = "StateUpdate" /\ formatTrackState(player').kind = "ok")
        => LET snap == Stamped(player', now')
               notify == shouldNotifyStateChange(rt, snap)
           IN  /\ rt'.lastState = snap
               /\ notified' = IF notify THEN Len(rt.stateUpdateCallbacks)
                               ELSE 0
               /\ cps' = IF notify
                         THEN runCallbacks(rt.stateUpdateCallbacks, cps, snap)
                         ELSE cps]_vars

\* The second push was not a meaningful change: no callback ran and
\* lastState is its snapshot
C13_Witness ==
    /\ lastOp = "StateUpdate"
    /\ player.seq = 2
    /\ Len(rt.stateUpdateCallbacks) >= 1
    /\ notified = 0
    /\ rt.lastState.present /\ rt.lastState.seq = player.seq

\* C14: a push payload for which formatTrackState returns null or throws
\* leaves lastState, with its lastUpdate, as it is and runs no callback.
C14_BadPayloadKeepsLastState ==
    [][(lastOp' = "StateUpdate" /\ formatTrackState(player').kind # "ok")
        => /\ rt'.lastState = rt.lastState
           /\ notified' = 0
           /\ cps' = cps]_vars

\* A payload without its player part arrived after a snapshot was stored
C14_Witness ==
    /\ lastOp = "StateUpdate"
    /\ formatTrackState(player).kind = "throw"
    /\ rt.lastState.present /\ rt.lastState.seq < player.seq

\* The eight fields shouldNotifyStateChange lists
FieldsDiffer(prev, next) ==
    \/ prev.title # next.title
    \/ prev.artist # next.artist
    \/ prev.videoId # next.videoId
    \/ prev.isPlaying # next.isPlaying
    \/ prev.isPaused # next.isPaused
    \/ prev.likeStatus # next.likeStatus
    \/ prev.volume # next.volume
    \/ prev.repeatMode # next.repeatMode

\* C15: with previous = lastState, shouldNotifyStateChange(next) is true
\* when previous is absent, true when one of the eight fields differs, true
\* when the progress differs by more than 2, and false when the eight
\* fields and the progress are equal, for every snapshot next.
C15_ShouldNotifyStateChange ==
    \A raw \in Payloads :
        formatTrackState(raw).kind = "ok" =>
            LET prev == rt.lastState
                next == Stamped(raw, now)
                notify == shouldNotifyStateChange(rt, next)
            IN  /\ ~prev.present => notify
                /\ (prev.present /\ FieldsDiffer(prev, next)) => notify
                /\ (prev.present /\ Abs(next.progress - prev.progress) > 2)
                      => notify
                /\ (prev.present /\ ~FieldsDiffer(prev, next)
                      /\ next.progress = prev.progress) => ~notify

\* The second push, with repeat mode One, differed from the snapshot stored
\* and was notified
C15_Witness ==
    /\ lastOp = "StateUpdate"
    /\ player.seq = 2
    /\ notified >= 1
    /\ rt.lastState = Stamped([BasePayload EXCEPT !.seq = 2,
                                                  !.repeatMode = Num(2)], now)

\* The kinds of keys whose display does not show the progress
NonProgressKeys == {"like"}

\* The keys drawn again by the last delivery: every callback run is
\* handleRealTimeStateUpdate, which ends with updateAllActiveKeys()
RedrawnKeys ==
    IF notified > 0 THEN updateAllActiveKeys(activeKeys) ELSE {}

\* next differs from prev by a progress change of at most 2 s only
SmoothTick(prev, next) ==
    /\ prev.present /\ next.present
    /\ ~FieldsDiffer(prev, next)
    /\ next.progress # prev.progress
    /\ Abs(next.progress - prev.progress) <= 2

\* C16: a push that differs from the stored snapshot only by a progress
\* change of at most 2 s draws no key again that does not show the
\* progress.
C16_SmoothTickDrawsNoStaticKey ==
    [][(/\ lastOp' = "StateUpdate"
        /\ formatTrackState(player').kind = "ok"
        /\ SmoothTick(rt.lastState, Stamped(player', now')))
        => {CidOf(call.uid) : call \in RedrawnKeys'} \cap NonProgressKeys
               = {}]_vars

\* The number of the flags isPlaying, isPaused, isBuffering that are true
PlayFlags(st) ==
    (IF st.isPlaying THEN 1 ELSE 0) + (IF st.isPaused THEN 1 ELSE 0)
        + (IF st.isBuffering THEN 1 ELSE 0)

\* C17: in a snapshot that formatTrackState produced, exactly one of
\* isPlaying, isPaused, isBuffering is true, or none is and the title is
\* empty.
C17_ExactlyOnePlayFlag ==
    rt.lastState.present
        => \/ PlayFlags(rt.lastState) = 1
           \/ PlayFlags(rt.lastState) = 0 /\ rt.lastState.title = ""

\* The payload has a video part with a title or an id
HasVideoIdentity(raw) ==
    /\ raw.shape \notin {"null", "novideo"}
    /\ raw.title # "" \/ raw.id # ""

\* C18: formatTrackState never throws on the payload received; it returns
\* null exactly when the payload has neither a title nor an id, and else a
\* snapshot in which a missing number is 0 and a missing enum is -1.
C18_FormatNeverThrows ==
    LET f == formatTrackState(player)
    IN  /\ f.kind # "throw"
        /\ (f.kind = "null") = ~HasVideoIdentity(player)
        /\ f.kind = "ok"
             => /\ ~player.volume.has => f.state.volume = 0
                /\ ~player.repeatMode.has => f.state.repeatMode = -1
                /\ ~player.likeStatus.has => f.state.likeStatus = Num(-1)

\* C19: after a notified push whose payload has player.volume = v and
\* player.queue.repeatMode = r, the snapshot and currentPlaybackState hold
\* volume v and repeat mode r, zero included.
C19_PlayerValuesPreserved ==
    (/\ lastOp = "StateUpdate"
     /\ formatTrackState(player).kind = "ok"
     /\ notified > 0
     /\ player.volume.has /\ player.repeatMode.has)
        => /\ rt.lastState.volume = player.volume.v
           /\ rt.lastState.repeatMode = player.repeatMode.v
           /\ cps.volume = player.volume.v
           /\ cps.repeatMode = player.repeatMode.v

\* C20: getCurrentTrackState() never returns an absent value: when the
\* fetch fails, is not possible or yields nothing normalizable, it returns
\* the cached snapshot or an empty one.
C20_TrackStateNeverAbsent == returned.called => returned.value.present

\* The API and ytMusicAuth hold valid credentials
Authenticated == authAuth /\ api.isAuthenticated /\ api.token

\* C23: whenever plugin.alive reports plugin keys while authenticated and
\* the channel is neither connected nor connecting, the handler starts a
\* connection attempt through connectToRealTimeUpdates(): a socket is
\* created and the channel is connecting, whatever realTimeConnected says.
C23_AliveKeysStartsConnection ==
    [][(/\ lastOp' = "AliveKeys" /\ activeKeys' # {}
        /\ Authenticated
        /\ ~rt.isConnected /\ ~rt.connecting)
        => /\ rt'.connecting
           /\ rt'.socket.exists /\ rt'.socket.status = "opening"]_vars

\* C25: when a connection failure finds the attempt counter at its maximum,
\* so that no reconnect is scheduled, the entry point learns of it:
\* currentPlaybackState.realTimeConnected is false afterwards.
C25_GiveUpReachesCoordinator ==
    [][(/\ lastOp' \in {"SocketConnectError", "SocketError"}
        /\ rt.reconnectAttempts = rt.maxReconnectAttempts)
        => ~cps'.realTimeConnected]_vars

\* The channel gave up: the counter is at its maximum, so that a failure
\* schedules no reconnect.  (The state in which, besides, no reconnect
\* timer is pending is not reachable: the timer of the last reconnect
\* runs connect(), whose disconnect() restarts the counter.)
GaveUp(c) == c.reconnectAttempts = c.maxReconnectAttempts

HttpInFlight ==
    BagCardinality(inflight) + (IF authInit.pc = "request" THEN 1 ELSE 0)

\* The step invoked makeRequest, for a command or for the validation
Invoked ==
    /\ lastOp \in {"PluginData", "CommandNotAuthenticated",
                   "InitializeAuthentication", "ValidationRetry"}
    /\ apiCall.phase = "call"

\* The step is the end of the request of an invocation
RequestDone ==
    /\ lastOp \in {"CommandResponse", "CommandUnauthorized", "CommandFails",
                   "AuthInitValid", "ValidationFails", "TrackStateFails",
                   "PullFails"}
    /\ apiCall.phase = "done"

\* The steps in which a caller handles a failed request
FailureOps ==
    {"CommandUnauthorized", "CommandFails", "ValidationFails",
     "TrackStateFails", "PullFails"}

\* C28: makeRequest invoked while the API is not authenticated throws the
\* authentication error and sends no request; an invocation sends at most
\* one request, none after its request ended; and a request that failed
\* makes the invocation throw, into the failure path of the caller.
C28_MakeRequestContract ==
    [][/\ (Invoked' /\ ~apiCall'.authenticated)
            => /\ apiCall'.res = "throw"
               /\ IsNotAuthenticated(apiCall'.error)
               /\ apiCall'.requests = 0
               /\ HttpInFlight' <= HttpInFlight
       /\ Invoked'
            => /\ apiCall'.requests <= 1
               /\ HttpInFlight' <= HttpInFlight + 1
       /\ RequestDone'
            => /\ apiCall'.requests <= 1
               /\ HttpInFlight' < HttpInFlight
       /\ (RequestDone' /\ apiCall'.outcome # "ok")
            => /\ apiCall'.res = "throw"
               /\ apiCall'.error = ErrorOf(apiCall'.outcome)
               /\ lastOp' \in FailureOps]_vars

\* The validation tries again after the API was cleared: makeRequest throws
\* at once and the loop ends
C28_Witness ==
    /\ lastOp = "ValidationRetry"
    /\ Invoked /\ ~apiCall.authenticated
    /\ apiCall.res = "throw"
    /\ authInit.pc = "clearing"
    /\ authInit.requests = 1

\* A command of a key or a fetch of the state failed with an authentication
\* error: the throw of an unauthenticated API or handler, or a request the
\* server refused as not authorised
AuthFailure ==
    \/ lastOp \in {"CommandUnauthorized", "CommandNotAuthenticated"}
    \/ /\ lastOp \in {"TrackStateFails", "PullFails"}
       /\ apiCall.phase = "done"
       /\ apiCall.outcome = "unauthorized"

\* C24: when a player command or a fetch of the state fails with an
\* authentication error while the coordinator reports a live connection,
\* currentPlaybackState.realTimeConnected is false afterwards.
C24_AuthFailureLeavesConnected ==
    [][(cps.realTimeConnected /\ AuthFailure')
        => ~cps'.realTimeConnected]_vars

\* C27: initializeAuthentication() with saved credentials sends at most ten
\* validation requests, sends a further one only after a rate-limit error,
\* and when the validation ends without success it returns false with the
\* authentication cleared: both isAuthenticated flags false and no token.
C27_ValidationBoundedAndCleared ==
    [][/\ authInit'.requests <= MaxRetries
       /\ (authInit.requests > 0 /\ authInit'.requests > authInit.requests)
            => IsRateLimit(authInit.lastError)
       /\ lastOp' = "AuthInitReturnsFalse"
            => /\ authInit'.result = "false"
               /\ ~authAuth'
               /\ ~api'.isAuthenticated
               /\ ~api'.token]_vars

\* The active keys of a device: the ids made of its serial number and a uid
KeysOfDevice(keys, serialNumber) ==
    {uid \in Uids : KeyIdOf(serialNumber, uid) \in keys}

\* C30: the registry of the active keys follows the reports of the host:
\* after plugin.alive(d, K) every active key of d has its uid in K; after
\* device.status(D) no active key belongs to a device outside D; a key
\* becomes active only by its initialisation in plugin.alive or by a
\* plugin.data for it.
C30_RegistryFollowsHost ==
    [][/\ hostReport'.kind = "alive"
            => KeysOfDevice(activeKeys', hostReport'.serialNumber)
                 \subseteq hostReport'.uids
       /\ hostReport'.kind = "status"
            => \A serialNumber \in Serials \ hostReport'.devices :
                   KeysOfDevice(activeKeys', serialNumber) = {}
       /\ \A keyId \in activeKeys' \ activeKeys :
            \/ /\ hostReport'.kind = "alive"
               /\ \E uid \in hostReport'.uids :
                      keyId = KeyIdOf(hostReport'.serialNumber, uid)
            \/ /\ hostReport'.kind = "data"
               /\ keyId = KeyIdOf(hostReport'.serialNumber,
                                  hostReport'.uid)]_vars

\* C29: plugin.draw is called only for a key that is in activeKeys at the
\* moment of the call and for a device that has an active key, also at the
\* end of a render that was in progress while its key was cleaned up.
C29_DrawOnlyActiveKeys == \A d \in drawn : d.active /\ d.deviceActive

\* The image of a render arrived after its key left the registry while
\* another key of the device is active: no plugin.draw call is made
C29_Witness ==
    /\ lastOp = "JobDone"
    /\ hostReport.kind = "job"
    /\ hostReport.stage = "render"
    /\ KeyIdOf(hostReport.serialNumber, hostReport.uid) \notin activeKeys
    /\ isDeviceConnected(activeKeys, hostReport.serialNumber)
    /\ drawn = {}

\* A wait of the key with this id is in progress
JobPending(js, keyId) ==
    \E j \in js : KeyIdOf(j.serialNumber, j.uid) = keyId

\* C22: a now-playing key that plugin.alive reports as new while a snapshot
\* exists receives exactly one draw call, showing the snapshot, before the
\* next state update arrives: never several, never another content, and
\* not zero once no wait of the active key is left.
C22_ExactlyOneDrawOfSnapshot ==
    \A keyId \in DOMAIN drawLog :
        /\ Len(drawLog[keyId]) <= 1
        /\ \A i \in DOMAIN drawLog[keyId] : drawLog[keyId][i] = "track"
        /\ (keyId \in activeKeys /\ ~JobPending(jobs, keyId))
             => Len(drawLog[keyId]) = 1

\* The update...KeyDisplay call reached plugin.draw, or its render is in
\* progress
Redrawn(call) ==
    \/ \E d \in drawn : d.key = KeyIdOf(call.serialNumber, call.uid)
    \/ \E j \in jobs : /\ j.serialNumber = call.serialNumber
                       /\ j.uid = call.uid
                       /\ j.stage = "render"

C39_ConnectedHasSocketNotConnecting ==
    /\ rt.isConnected => rt.socket.exists
    /\ ~(rt.connecting /\ rt.isConnected)

\* C37: at most one reconnect timer is pending at any time: a burst of
\* disconnect and error events leaves one timer, hence one timer-driven
\* connect().
C37_OneReconnectTimer ==
    /\ rt.timers <= 1
    /\ rt.timers = 1 <=> rt.timer # NoTimer

\* The two 'disconnect' handlers of a socket both scheduled a reconnect,
\* the second cancelling the timer of the first
C37_Witness ==
    /\ lastOp = "SocketDisconnect"
    /\ rt.reconnectAttempts = 2
    /\ rt.timers = 1

\* C33: currentPlaybackState.realTimeConnected is true only while the
\* channel's isConnected is true.
C33_FlagNeverStale == cps.realTimeConnected => rt.isConnected

\* The socket of an attempt connected: the channel is connected, holds its
\* socket and is no longer connecting
C39_Witness ==
    /\ lastOp = "SocketConnect"
    /\ rt.isConnected
    /\ rt.socket.exists
    /\ ~rt.connecting

----------------------------------------------------------------------------
(* The notification level and showNotification *)

NoSerial == <<>>

\* The levels of the claim: ERROR = 1, WARNING = 2, INFO = 3, any other
\* level of a message counts as ERROR
NumericLevel(level) ==
    IF level = "warning" THEN 2 ELSE IF level = "info" THEN 3 ELSE 1

\* The threshold a configured level stands for: OFF, ERROR, WARNING or INFO
\* in either case, ERROR for anything else
Threshold(configured) ==
    IF configured \in {"OFF", "off"} THEN 0
    ELSE IF configured \in {"WARNING", "warning"} THEN 2
    ELSE IF configured \in {"INFO", "info"} THEN 3
    ELSE 1

\* The settings are saved and updateNotificationLevelFromConfig() runs
UpdateNotificationLevel ==
    /\ \E configured \in ConfiguredLevels, fails \in BOOLEAN :
         /\ notificationLevel' =
              updateNotificationLevelFromConfig(configured, fails)
         /\ hostReport' = [kind |-> "config", configured |-> configured,
                           fails |-> fails]
    /\ shown' = {}
    /\ lastOp' = "UpdateNotificationLevel"
    /\ UNCHANGED <<variant, rt, api, authAuth, cps, player, inflight,
                   forcePending, notified, now, activeKeys, returned, counted,
                   apiVars, jobs, drawn, drawLog, fanout, keyData, pressed,
                   authFlow>>

\* Some caller shows a notification
ShowNotification ==
    /\ \E serialNumber \in Serials \cup {NoSerial}, message \in Messages,
          level \in MessageLevels, hostFails \in BOOLEAN :
         shown' = {showNotification(notificationLevel, serialNumber, message,
                                    level, hostFails)}
    /\ lastOp' = "ShowNotification"
    /\ UNCHANGED <<variant, rt, api, authAuth, cps, player, inflight,
                   forcePending, notified, now, activeKeys, returned, counted,
                   apiVars, jobs, drawn, drawLog, fanout, hostReport,
                   notificationLevel, keyData, pressed, authFlow>>

NextNotify ==
    \/ UpdateNotificationLevel
    \/ ShowNotification

\* The notifications: the level is configured and messages are shown
SpecNotify == Init /\ [][NextNotify]_vars

\* C32: showNotification makes the host display call if and only if the
\* numeric value of the level of the message (ERROR = 1, WARNING = 2,
\* INFO = 3, an unknown level as ERROR) is at most the configured threshold;
\* with the threshold OFF nothing is displayed; an invalid or missing
\* configured level, or a config that cannot be read, gives the threshold
\* ERROR; and a failure of the host call is not propagated to the caller.
C32_NotificationThreshold ==
    /\ hostReport.kind = "config"
         => getCurrentNumericNotificationLevel(notificationLevel)
              = IF hostReport.fails THEN 1
                ELSE Threshold(hostReport.configured)
    /\ \A n \in shown :
         /\ n.called <=>
              NumericLevel(n.level)
                <= getCurrentNumericNotificationLevel(notificationLevel)
         /\ notificationLevel = "OFF" => ~n.called /\ ~n.displayed
         /\ n.displayed => n.called
         /\ ~n.thrown

\* A warning passes the threshold WARNING while the host call fails
C32_Witness ==
    /\ lastOp = "ShowNotification"
    /\ notificationLevel = "WARNING"
    /\ \E n \in shown : n.level = "warning" /\ n.called /\ n.hostFails

----------------------------------------------------------------------------
(* The two authentication flags *)

\* C35: in every reachable state ytMusicAuth.isAuthenticated = true implies
\* that ytMusicApi.isAuthenticated is true and that the API holds a token,
\* whatever the interleaving of initializeAuthentication(),
\* startAuthenticationFlow(), clearAuthentication() and the config load of
\* plugin.alive.
C35_AuthImpliesApiAuth == authAuth => api.isAuthenticated /\ api.token

----------------------------------------------------------------------------
(* YouTubeMusicAuth: startAuthenticationFlow *)

\* How an awaited step of the flow ends
FlowOutcomes == {"ok", "failed"}

\* The flow ends without a `finally`: only the successful end resets
\* authenticationInProgress
endFlowNoFinally(f, result) ==
    [f EXCEPT !.inProgress = IF result = "success" THEN FALSE ELSE @,
              !.pc = "idle", !.result = result, !.running = @ - 1,
              !.rejected = FALSE, !.requests = 0]

\* The flow returns `result`: the `finally` block resets
\* authenticationInProgress
endFlow(f, result) ==
    [f EXCEPT !.inProgress = FALSE, !.pc = "idle", !.result = result,
              !.running = @ - 1, !.rejected = FALSE, !.requests = 0]

\* The flow goes on to the wait `pc`, sending `requests` requests
waitFlow(f, pc, requests) ==
    [f EXCEPT !.pc = pc, !.rejected = FALSE, !.requests = requests]

\* startAuthenticationFlow() is called: it throws while a flow is in
\* progress, returns at once when authenticated, and else sets
\* authenticationInProgress and asks the server for its status
StartAuthenticationFlow ==
    /\ IF authFlow.inProgress
       THEN /\ authFlow' = [authFlow EXCEPT !.rejected = TRUE,
                                             !.requests = 0]
            /\ Step("AuthFlowRejected", rt, cps, 0)
       ELSE IF authAuth
       THEN /\ authFlow' = [authFlow EXCEPT !.result = "already",
                                             !.rejected = FALSE,
                                             !.requests = 0]
            /\ Step("AuthFlowAlready", rt, cps, 0)
       ELSE /\ authFlow' = [authFlow EXCEPT !.inProgress = TRUE,
                                             !.pc = "server",
                                             !.result = "none",
                                             !.running = @ + 1,
                                             !.rejected = FALSE,
                                             !.requests = 1]
            /\ Step("StartAuthenticationFlow", rt, cps, 0)
    /\ UNCHANGED <<variant, api, authAuth, player, inflight, forcePending,
                   now, activeKeys, returned, counted, apiVars, jobs, drawn,
                   drawLog, fanout, hostReport, notificationLevel, shown,
                   keyData, pressed>>

\* An awaited step of the flow ends: checkServerStatus(), plugin.getConfig(),
\* requestAuthCode(), exchangeCodeForToken(), which authenticates the API,
\* and plugin.setConfig(), after which the flag is set. An exception ends
\* the flow in its catch block
AuthFlowStep ==
    /\ authFlow.pc # "idle"
    /\ \E outcome \in FlowOutcomes :
         IF outcome = "failed"
         THEN /\ authFlow' = endFlow(authFlow, "failure")
              /\ UNCHANGED <<api, authAuth, config>>
              /\ Step("AuthFlowFails", rt, cps, 0)
         ELSE IF authFlow.pc = "server"
         THEN /\ authFlow' = waitFlow(authFlow, "config", 0)
              /\ UNCHANGED <<api, authAuth, config>>
              /\ Step("AuthFlowServerRunning", rt, cps, 0)
         ELSE IF authFlow.pc = "config"
         THEN /\ authFlow' = waitFlow(authFlow, "code", 1)
              /\ UNCHANGED <<api, authAuth, config>>
              /\ Step("AuthFlowRequestCode", rt, cps, 0)
         ELSE IF authFlow.pc = "code"
         THEN /\ authFlow' = waitFlow(authFlow, "token", 1)
              /\ UNCHANGED <<api, authAuth, config>>
              /\ Step("AuthFlowExchange", rt, cps, 0)
         ELSE IF authFlow.pc = "token"
         THEN /\ authFlow' = waitFlow(authFlow, "save", 0)
              /\ api' = setToken(api)
              /\ UNCHANGED <<authAuth, config>>
              /\ Step("AuthFlowToken", rt, cps, 0)
         ELSE /\ authFlow' = endFlow(authFlow, "success")
              /\ config' = TRUE
              /\ authAuth' = TRUE
              /\ api' = api
              /\ Step("AuthFlowSuccess", rt, cps, 0)
    /\ UNCHANGED <<variant, player, inflight, forcePending, now, activeKeys,
                   returned, counted, authInit, apiCall, jobs, drawn,
                   drawLog, fanout, hostReport, notificationLevel, shown,
                   keyData, pressed>>

NextFlow ==
    \/ StartAuthenticationFlow
    \/ AuthFlowStep
    \/ ClearAuthentication
    \/ InitializeAuthentication
    \/ ValidationResponse

\* The authentication flow of the settings page, with the validation at
\* start and the logout
SpecFlow == Init /\ [][NextFlow]_vars

\* A call of startAuthenticationFlow() was the last step
FlowInvoked ==
    lastOp \in {"StartAuthenticationFlow", "AuthFlowAlready",
                "AuthFlowRejected"}

\* C36: at most one authentication flow runs at a time: a call of
\* startAuthenticationFlow() while a flow is in progress fails with
\* 'Authentication already in progress' and sends no request, and
\* authenticationInProgress is false again after every end of a flow, be it
\* a success, a returned failure or an exception.
C36_OneFlowAtATime ==
    /\ [](authFlow.running <= 1)
    /\ [](authFlow.inProgress <=> authFlow.pc # "idle")
    /\ [](authFlow.rejected => authFlow.requests = 0 /\ authFlow.inProgress)
    /\ [][(authFlow.inProgress /\ FlowInvoked')
            => /\ authFlow'.rejected
               /\ authFlow'.requests = 0
               /\ authFlow'.pc = authFlow.pc
               /\ authFlow'.running = authFlow.running]_vars
    /\ [][(authFlow.pc # "idle" /\ authFlow'.pc = "idle")
            => ~authFlow'.inProgress]_vars

\* A second call was rejected while the first flow waits for the token
C36_Witness ==
    /\ lastOp = "AuthFlowRejected"
    /\ authFlow.rejected /\ authFlow.pc = "token" /\ authFlow.inProgress

----------------------------------------------------------------------------
(* The authentication-required message *)

NextNotes ==
    \/ InitializeAuthentication
    \/ ValidationResponse
    \/ ClearAuthentication
    \/ PluginAlive
    \/ PluginDataOne
    \/ CommandResponse
    \/ JobDone
    \/ StateUpdateFanout

\* The keys of one device and their notifications, while the credentials
\* are validated and cleared
SpecNotes == Init /\ [][NextNotes]_vars

\* showAuthError ran in the last step
AuthErrorShown == \E n \in shown : n.message = "Auth required"

\* C31: the authentication-required message of showAuthError is emitted
\* only by the handling of a plugin.data interaction: no key initialisation,
\* display refresh or fan-out of a state update emits it, in any
\* interleaving with the validation and the clearing of the credentials.
C31_AuthErrorOnlyOnInteraction == AuthErrorShown => hostReport.kind = "data"

----------------------------------------------------------------------------
(* The multi-state keys: repeat, mute and shuffle *)

\* Interactions of one key whose command is in flight at a time
MaxPressed == 1

\* handle...Interaction up to its `await ytMusicApi....()`: the new
\* currentState of the key. handleRepeatInteraction stores the next mode
\* before it sends the command, the two others store nothing yet
stateBeforeCommand(cid, currentState) ==
    IF cid = "repeat" THEN (currentState + 1) % 3 ELSE currentState

\* handle...Interaction after its command resolved: the currentState it
\* stores, for mute and shuffle from the value read before the command
stateAfterCommand(cid, before, currentState) ==
    IF cid = "repeat" THEN currentState
    ELSE IF before = 1 THEN 0 ELSE 1

\* plugin.data for a multi-state key: handle...Interaction runs up to its
\* `await ytMusicApi....()`, into its catch block when not authenticated
MultiStateInteraction ==
    /\ \E cid \in MultiStateCids :
         /\ Cardinality({e \in pressed : e.cid = cid}) < MaxPressed
         /\ LET r == sendCommand(api)
                failed == ~authAuth \/ r.res = "throw"
            IN  /\ keyData' = IF ~authAuth THEN keyData
                              ELSE [keyData EXCEPT ![cid] =
                                      stateBeforeCommand(cid, @)]
                /\ pressed' = IF failed THEN pressed
                              ELSE pressed \cup
                                     {[cid |-> cid, before |-> keyData[cid]]}
                /\ shown' = IF failed
                            THEN {showAuthError(notificationLevel, <<"d1">>)}
                            ELSE {}
                /\ hostReport' = [kind |-> "data", serialNumber |-> <<"d1">>,
                                  uid |-> <<cid>>, cid |-> cid,
                                  before |-> keyData[cid], failed |-> failed]
                /\ Step(IF failed THEN "CommandNotAuthenticated"
                        ELSE "MultiStateInteraction", rt, cps, 0)
    /\ UNCHANGED <<variant, api, authAuth, player, inflight, forcePending,
                   now, activeKeys, returned, counted, apiVars, jobs, drawn,
                   drawLog, fanout, notificationLevel, authFlow>>

\* The command of a multi-state key ends: after success the state is
\* stored (mute, shuffle) and shown; the catch block shows a notification
MultiStateResponse ==
    /\ \E e \in pressed, outcome \in Outcomes :
         LET r == sendCommandDone(outcome)
         IN  /\ pressed' = pressed \ {e}
             /\ keyData' = IF r.res = "return"
                           THEN [keyData EXCEPT ![e.cid] =
                                   stateAfterCommand(e.cid, e.before, @)]
                           ELSE keyData
             /\ shown' = {showErrorNotification(
                              notificationLevel, <<"d1">>,
                              IF outcome = "ok" THEN "done" ELSE "failure",
                              IF outcome = "ok" THEN "info" ELSE "error")}
             /\ hostReport' = [kind |-> "command", cid |-> e.cid,
                               before |-> e.before, failed |-> outcome # "ok"]
             /\ Step(IF outcome = "ok" THEN "MultiStateResponse"
                     ELSE "MultiStateFails", rt, cps, 0)
    /\ UNCHANGED <<variant, api, authAuth, player, inflight, forcePending,
                   now, activeKeys, returned, counted, apiVars, jobs, drawn,
                   drawLog, fanout, notificationLevel, authFlow>>

NextInteract ==
    \/ InitializeAuthentication
    \/ ValidationResponse
    \/ ClearAuthentication
    \/ MultiStateInteraction
    \/ MultiStateResponse

\* The presses of the multi-state keys and the commands they send
SpecInteract == Init /\ [][NextInteract]_vars

\* The last step was a handler of a multi-state key whose command failed
CommandFailed ==
    /\ hostReport.kind \in {"data", "command"}
    /\ "cid" \in DOMAIN hostReport
    /\ hostReport.failed
    /\ authAuth \/ hostReport.kind = "command"

\* C40: when the player command of an interaction handler fails, the stored
\* state of the key is what it was before the handler ran: for
\* handleRepeatInteraction when setRepeatMode rejects, as for
\* handleMuteToggleInteraction and handleShuffleInteraction.
C40_FailedCommandKeepsState ==
    CommandFailed => keyData[hostReport.cid] = hostReport.before

\* The same for the mute and the shuffle key alone
C40_MuteShuffleKeepState ==
    (CommandFailed /\ hostReport.cid # "repeat")
        => keyData[hostReport.cid] = hostReport.before

----------------------------------------------------------------------------
(* The channel after the last device went away *)

NextQuiet ==
    \/ FirstConnect
    \/ SocketConnect
    \/ SocketConnectError
    \/ SocketDisconnect
    \/ ConnectTimeout
    \/ ReconnectTimer
    \/ DeviceStatus

\* One plugin.alive, then the events of the socket, the timers and
\* device.status: no plugin.alive and no connect request follows a
\* device.status
SpecQuiet == Init /\ [][NextQuiet]_vars

\* The last host report was a device.status with no device
Quiet == hostReport.kind = "status" /\ hostReport.devices = {}

\* The reconnect timer fired and its connect() made a socket
TimerMadeSocket ==
    lastOp' = "ReconnectTimer" /\ rt'.connecting /\ ~rt.connecting

\* C34: after device.status reported no device, and until a plugin.alive or
\* a connect request, the channel is not connected and no reconnect timer
\* set earlier makes a socket.
C34_QuietAfterNoDevice ==
    [][Quiet' => ~rt'.isConnected /\ ~TimerMadeSocket]_vars

\* The part about the reconnect timer alone
C34_NoSocketByTimer == [][Quiet' => ~TimerMadeSocket]_vars

----------------------------------------------------------------------------
(* Every connection attempt ends *)

NextLive ==
    \/ FirstConnect
    \/ UiDisconnect
    \/ DeviceStatus
    \/ SocketConnect
    \/ SocketConnectError
    \/ SocketDisconnect
    \/ ConnectTimeout
    \/ StaleConnectTimeout
    \/ ReconnectTimer

\* One plugin.alive, the events of the socket, the timers, device.status
\* and the caller's disconnect(); a timer that is set fires unless it is
\* cleared
SpecLive ==
    /\ Init
    /\ [][NextLive]_vars
    /\ WF_vars(ConnectTimeout)
    /\ WF_vars(StaleConnectTimeout)

\* The same with the copy of the class in part_005
SpecLivePart005 ==
    /\ InitPart005
    /\ [][NextLive]_vars
    /\ WF_vars(ConnectTimeout)
    /\ WF_vars(StaleConnectTimeout)

\* The promise of the attempt on the current socket is not settled
AttemptPending == rt.attempt.timeout

\* The promise of an attempt whose socket disconnect() gave up is not
\* settled
AbandonedPending == rt.stale.w + rt.stale.nw > 0

\* C38: every connection attempt started by connect() leaves the connecting
\* state and its promise settles, by 'connect', 'connect_error' or the 15 s
\* timer, also when a caller invokes disconnect() during the attempt.
C38_AttemptEnds ==
    /\ rt.connecting ~> ~rt.connecting
    /\ AttemptPending ~> ~AttemptPending
    /\ AbandonedPending ~> ~AbandonedPending

\* The 15 s timer of an attempt given up by the caller's disconnect() fired
C38_Witness ==
    /\ lastOp = "StaleConnectTimeout"
    /\ ~rt.connecting /\ ~AttemptPending /\ ~AbandonedPending
============================================================================
